---- MODULE Spec2Model ----
(***************************************************************************)
(* The matchmaking core of the lobby server: LadderService                 *)
(* (server/ladder_service/ladder_service.py) with the searches registry,   *)
(* the deferred queue.search tasks, the pop iteration and the              *)
(* on_match_found callback.  MatchmakerQueue, Search and TeamMatchMaker    *)
(* are modelled from their documented contract.                            *)
(***************************************************************************)
EXTENDS Integers, Sequences, FiniteSets, TLC

\* ---------------------------------------------------------------- bounds
NumPlayers == 4
MaxSearches == 3
\* connections are lost by the players 1..MaxLost
MaxLost == 2
\* Searches created in a run of SpecTimeout and of SpecPop
MaxTimeoutSearches == 2
MaxPopSearches == 4
\* rows of one read of the store, MatchmakerQueue objects created in a run,
\* and Searches created in a run of SpecUpdate
MaxRows == 3
MaxQueueObjects == 3
MaxUpdateSearches == 1
\* rows of the store in a refresh of SpecUpdate
MaxUpdateRows == 2
\* the Search objects the matches given to _add_matches_from1v1 are made of
MaxFilterSearches == 4
\* Search objects and exceptions in a run of the pop loop
MaxLoopSearches == 3
MaxRaises == 2
\* the players of a team and the rating means in a slot assignment
MaxTeamSize == 2
MaxMean == 2

\* games.Game: the game connections, the players that own them, the
\* armies, the scores reported (-MaxScore..MaxScore) and the results
\* reported per army
MaxConnections == 3
MaxGamePlayers == 2
MaxArmy == 2
MaxScore == 1
MaxResults == 2

Players == 1..NumPlayers
SearchIds == 1..MaxPopSearches

\* Optional[Search] = None, and a connection without a player
NoSearch == 0
NoPlayer == 0
\* name not in self.queues
NoQueue == [id |-> 0, featured_mod |-> "", rating_type |-> "", team_size |-> 0,
            map_pools |-> <<>>]

\* ---------------------------------------------------------------- queues
\* self.queues: one 1v1 queue and one team queue, in dict order
QueueOrder == <<"ladder1v1", "tmm2v2">>
QueueNames == {QueueOrder[i] : i \in 1..Len(QueueOrder)}

team_size(queue_name) == IF queue_name = "ladder1v1" THEN 1 ELSE 2

queue_rating_type(queue_name) ==
    IF queue_name = "ladder1v1" THEN "ladder_1v1" ELSE "tmm_2v2"

\* self._queues_without1v1() and self._1v1queues(), in dict order
_queues_without1v1 == SelectSeq(QueueOrder, LAMBDA q : team_size(q) # 1)

_1v1queues == SelectSeq(QueueOrder, LAMBDA q : team_size(q) = 1)

\* player.ratings[rating_type] deviation: one player per branch of
\* write_rating_progress, boundaries included
Deviation(player, rating_type) ==
    IF rating_type = "ladder_1v1"
    THEN CASE player = 1 -> 500
           [] player = 2 -> 490
           [] player = 3 -> 250
           [] OTHER      -> 0
    ELSE CASE player = 1 -> 491
           [] player = 2 -> 251
           [] player = 3 -> 100
           [] OTHER      -> 250

\* PlayerState
IDLE == "IDLE"
SEARCHING_LADDER == "SEARCHING_LADDER"
STARTING_AUTOMATCH == "STARTING_AUTOMATCH"

\* The parties a start_search request may name: one player, or for a team
\* queue two neighbouring players (parties overlap in a player)
Parties(queue_name) ==
    {<<p>> : p \in Players} \cup
    (IF team_size(queue_name) >= 2
     THEN {<<p, p + 1>> : p \in 1..(NumPlayers - 1)}
     ELSE {})

Range(seq) == {seq[i] : i \in 1..Len(seq)}

\* ---------------------------------------------------------------- state
VARIABLES
    searches,           \* self._searches: player -> queue_name -> Search
    informed_players,   \* self._informed_players
    player_state,       \* player.state
    search_obj,         \* the Search objects created so far: players, queue
    cancelled,          \* Searches on which Search.cancel() was called
    matched,            \* Searches the queue has matched
    queue_set,          \* MatchmakerQueue: the Searches each queue holds
    task_pc,            \* the queue.search(search) task of each Search
    pop_pc,             \* position of the _queue_pop_iteration task
    possible_games,     \* pop: result of find_matches awaited
    matches_tmm,        \* pop: picked team matches
    matches_1v1,        \* pop: result of find_matches1v1 awaited
    start_game_tasks,   \* start_game tasks created and not yet run
    cancel_requested,   \* history: Searches that went through _cancel_search
    rating_noticed,     \* history: players sent a rating-progress notice
    noticed_since_lost, \* history: same, since the player's last connection loss
    last_refused,       \* history: the last step was a start_search refused for timeouts
    queues,             \* self.queues: queue name -> MatchmakerQueue, or NoQueue
    queue_objects,      \* MatchmakerQueue objects created so far
    rows,               \* fetch_matchmaker_queues: the rows the store returned
    db_queues,          \* fetch_matchmaker_queues: its result
    is_running,         \* self._is_running
    pop_snapshot,       \* history: the Search objects that existed when the iteration started
    raises,             \* history: exceptions the pop loop has caught
    handed,             \* _add_matches_from1v1: the matches handed to _found_matches
    lobby_connection,   \* the players whose lobby_connection is not None
    launch_pc,          \* position of the _start_game task
    launch_in,          \* _start_game: its teams, and whether the queue has a map pool for them
    ladder_game,        \* _start_game: the game created, who is connected to it, on_game_finish
    launch_error,       \* _start_game: the exception raised, and where
    launch_msgs,        \* launch_game and match_cancelled messages written
    metrics_matches,    \* metrics.matches of the queue, by MatchLaunch outcome
    violations,         \* the calls of violation_service.register_violations
    slot_in,            \* slot assignment: the teams, the rating means, the shuffle
    player_options,     \* slot assignment: game._player_options
    the_game,           \* games.Game: its state, _connections, _players, _results
    game_connections    \* the game connections: their player and state

\* no _start_game runs
NoLaunch == [team1 |-> <<>>, team2 |-> <<>>, pool |-> FALSE]
NoGame == [id |-> 0, connected |-> {}, finished |-> FALSE]
NoError == [kind |-> "None", players |-> <<>>, at |-> "None"]

\* no slot assignment runs; a player without options
NoSlots == [team1 |-> <<>>, team2 |-> <<>>, mean |-> <<>>, shuffle |-> <<>>]
NoOptions == [Team |-> 0, StartSpot |-> 0, Army |-> 0, Color |-> 0]

\* games.Game: the players that may connect, the connections, the armies
\* and the scores a result may carry
GamePlayers == 1..MaxGamePlayers
Connections == 1..MaxConnections
Armies == 1..MaxArmy
Scores == (0 - MaxScore)..MaxScore

\* games.GameState
GameState == {"INITIALIZING", "LOBBY", "LIVE", "ENDED"}

\* the states of a game connection: add_game_connection tells
\* CONNECTED_TO_HOST from every other state, two of which stand for them
GameConnectionState == {"INITIALIZING", "CONNECTED_TO_HOST", "ENDED"}

\* no get_army_result has returned
NoResult == [raised |-> FALSE, score |-> 0]

\* Game.__init__; army 0 is a player without the option 'Army', connection
\* 0 a player without a key in _connections
NewGame ==
    [state |-> "INITIALIZING",
     connections |-> [p \in GamePlayers |-> 0],
     players |-> {},
     army |-> [p \in GamePlayers |-> 0],
     results |-> [a \in Armies |-> <<>>],
     error |-> "None",
     army_result |-> NoResult,
     added |-> {},
     launched |-> FALSE,
     at_launch |-> {},
     ends |-> 0,
     persisted |-> {}]

\* no game connection exists
NoConnections == [c \in Connections |-> [player |-> 1, state |-> "INITIALIZING"]]

\* server.metrics.MatchLaunch
MatchLaunch == {"SUCCESSFUL", "TIMED_OUT", "ABORTED_BY_PLAYER", "ERRORED"}

\* self.queues and the objects in it
update_vars == <<queues, queue_objects>>

\* one read of the store
fetch_vars == <<rows, db_queues>>

\* the pop loop
loop_vars == <<is_running, pop_snapshot, raises>>

\* one call of _add_matches_from1v1
filter_vars == <<handed>>

\* one run of _start_game
launch_vars == <<lobby_connection, launch_pc, launch_in, ladder_game, launch_error,
                 launch_msgs, metrics_matches, violations>>

\* one slot assignment of _start_game
slot_vars == <<slot_in, player_options>>

\* one games.Game and the connections to it
game_vars == <<the_game, game_connections>>

\* what the handlers of searches and the pop iteration leave alone
aside_vars == <<update_vars, fetch_vars, filter_vars, launch_vars, slot_vars, game_vars>>

vars == <<searches, informed_players, player_state, search_obj,
          cancelled, matched, queue_set, task_pc, pop_pc, possible_games,
          matches_tmm, matches_1v1, start_game_tasks, cancel_requested,
          rating_noticed, noticed_since_lost, last_refused,
          update_vars, fetch_vars, loop_vars, filter_vars, launch_vars,
          slot_vars, game_vars>>

\* player.write_message({...})
Msg(player, command, queue_name, state, text, progress) ==
    [player |-> player, command |-> command, queue_name |-> queue_name,
     state |-> state, text |-> text, progress |-> progress]

NoProgress == -1

\* The part of the state the synchronous handlers of LadderService work on
View ==
    [searches |-> searches, state |-> player_state,
     cancelled |-> cancelled, informed |-> informed_players,
     creq |-> cancel_requested, msgs |-> <<>>, games |-> <<>>,
     queues |-> {q \in QueueNames : queues[q] # NoQueue},
     raised |-> FALSE, caught |-> FALSE]

\* bool(self._searches[player])
HasSearches(sv, player) ==
    \E q \in QueueNames : sv.searches[player][q] # NoSearch

Write(sv, m) == [sv EXCEPT !.msgs = Append(@, m)]

\* ------------------------------------------------- LadderService handlers
\* del self._searches[player][queue_name]: KeyError when the key is missing
DelEntry(sv, player, queue_name) ==
    IF sv.raised THEN sv
    ELSE IF sv.searches[player][queue_name] # NoSearch
         THEN [sv EXCEPT !.searches[player][queue_name] = NoSearch]
         ELSE [sv EXCEPT !.raised = TRUE]

RECURSIVE DelEntries(_, _, _, _)
DelEntries(sv, players, queue_name, i) ==
    IF i > Len(players) THEN sv
    ELSE DelEntries(DelEntry(sv, players[i], queue_name), players, queue_name, i + 1)

\* mutant: the Search is looked up and returned, no entry is removed
_clear_search_returns_only(sv, initiator, queue_name) == sv

\* mutant: only the initiator's entry is removed
_clear_search_initiator_only(sv, initiator, queue_name) ==
    IF sv.searches[initiator][queue_name] # NoSearch
    THEN DelEntry(sv, initiator, queue_name)
    ELSE sv

\* LadderService._clear_search: the state after it; it returns
\* sv.searches[initiator][queue_name] as read before the call
_clear_search(sv, initiator, queue_name) ==
    LET search == sv.searches[initiator][queue_name]
    IN  IF search # NoSearch
        THEN DelEntries(sv, search_obj[search].players, queue_name, 1)
        ELSE sv

\* mutant: the player is reset to idle without looking at the registry
StopNotice_always_idle(sv, player, queue_name) ==
    LET w == Write(sv, Msg(player, "search_info", queue_name, "stop", "", NoProgress))
    IN  IF w.state[player] = SEARCHING_LADDER
        THEN [w EXCEPT !.state[player] = IDLE]
        ELSE w

\* body of the loop of _cancel_search over cancelled_search.players
StopNotice(sv, player, queue_name) ==
    LET w == Write(sv, Msg(player, "search_info", queue_name, "stop", "", NoProgress))
    IN  IF ~HasSearches(w, player) /\ w.state[player] = SEARCHING_LADDER
        THEN [w EXCEPT !.state[player] = IDLE]
        ELSE w

RECURSIVE StopNotices(_, _, _, _)
StopNotices(sv, players, queue_name, i) ==
    IF i > Len(players) THEN sv
    ELSE StopNotices(StopNotice(sv, players[i], queue_name), players, queue_name, i + 1)

\* mutant: the Search is cancelled and its players are told, the registry
\* keeps it
_cancel_search_keeps_registry(sv, initiator, queue_name) ==
    IF sv.raised THEN sv
    ELSE
    LET cancelled_search == sv.searches[initiator][queue_name]
    IN  IF cancelled_search = NoSearch THEN sv
        ELSE StopNotices([sv EXCEPT !.cancelled = @ \cup {cancelled_search},
                                    !.creq = @ \cup {cancelled_search}],
                         search_obj[cancelled_search].players, queue_name, 1)

\* mutant: cancelled_search.cancel() is not called
_cancel_search_no_cancel(sv, initiator, queue_name) ==
    LET cancelled_search == sv.searches[initiator][queue_name]
        c == _clear_search(sv, initiator, queue_name)
    IN  IF c.raised \/ cancelled_search = NoSearch THEN c
        ELSE StopNotices([c EXCEPT !.creq = @ \cup {cancelled_search}],
                         search_obj[cancelled_search].players, queue_name, 1)

\* LadderService._cancel_search
_cancel_search(sv, initiator, queue_name) ==
    IF sv.raised THEN sv
    ELSE
    LET cancelled_search == sv.searches[initiator][queue_name]
        c == _clear_search(sv, initiator, queue_name)
    IN  IF c.raised \/ cancelled_search = NoSearch THEN c
        ELSE StopNotices([c EXCEPT !.cancelled = @ \cup {cancelled_search},
                                   !.creq = @ \cup {cancelled_search}],
                         search_obj[cancelled_search].players, queue_name, 1)

RECURSIVE CancelEach(_, _, _, _)
CancelEach(sv, initiator, queue_names, i) ==
    IF i > Len(queue_names) THEN sv
    ELSE CancelEach(_cancel_search(sv, initiator, queue_names[i]), initiator, queue_names, i + 1)

\* list(self._searches[initiator].keys())
RegisteredQueues(sv, player) ==
    SelectSeq(QueueOrder, LAMBDA q : sv.searches[player][q] # NoSearch)

\* mutant: the initiator is told of the stop also when nothing was
\* registered
cancel_search_tells_initiator(sv, initiator, queue_name) ==
    LET queue_names == IF queue_name = "None"
                       THEN RegisteredQueues(sv, initiator)
                       ELSE <<queue_name>>
        r == CancelEach(sv, initiator, queue_names, 1)
    IN  IF r = sv
        THEN Write(sv, Msg(initiator, "search_info", queue_name, "stop", "", NoProgress))
        ELSE r

\* LadderService.cancel_search; queue_name is a queue name or "None"
cancel_search(sv, initiator, queue_name) ==
    LET queue_names == IF queue_name = "None"
                       THEN RegisteredQueues(sv, initiator)
                       ELSE <<queue_name>>
    IN  CancelEach(sv, initiator, queue_names, 1)

\* progress = (500.0 - deviation) / 2.5, as formatted by {progress:.0f}
Progress(deviation) == ((500 - deviation) * 4 + 5) \div 10

\* mutant: a deviation of exactly 490 counts as uncalibrated
RatingNotice_boundary(sv, player, rating_type) ==
    LET deviation == Deviation(player, rating_type)
    IN  IF deviation >= 490
        THEN Write(sv, Msg(player, "notice", "", "", "welcome", NoProgress))
        ELSE IF deviation > 250
        THEN Write(sv, Msg(player, "notice", "", "", "calibrating", Progress(deviation)))
        ELSE sv

RatingNotice(sv, player, rating_type) ==
    LET deviation == Deviation(player, rating_type)
    IN  IF deviation > 490
        THEN Write(sv, Msg(player, "notice", "", "", "welcome", NoProgress))
        ELSE IF deviation > 250
        THEN Write(sv, Msg(player, "notice", "", "", "calibrating", Progress(deviation)))
        ELSE sv

\* mutant: the player is not remembered as informed
write_rating_progress_forgetful(sv, player, rating_type) ==
    IF player \notin sv.informed
    THEN RatingNotice(sv, player, rating_type)
    ELSE sv

\* LadderService.write_rating_progress
write_rating_progress(sv, player, rating_type) ==
    IF player \notin sv.informed
    THEN RatingNotice([sv EXCEPT !.informed = @ \cup {player}], player, rating_type)
    ELSE sv

\* mutant: only the timed-out players are notified
TimeoutNotices_offenders_only(sv, player, queue_name, timeouts) ==
    IF player \in timeouts
    THEN Write(Write(Write(sv,
            Msg(player, "search_timeout", "", "", "", NoProgress)),
            Msg(player, "search_info", queue_name, "stop", "", NoProgress)),
            Msg(player, "notice", "", "", "timed_out", NoProgress))
    ELSE sv

\* start_search, body of the loop over players when timeouts is not empty
TimeoutNotices(sv, player, queue_name, timeouts) ==
    Write(Write(Write(sv,
        Msg(player, "search_timeout", "", "", "", NoProgress)),
        Msg(player, "search_info", queue_name, "stop", "", NoProgress)),
        Msg(player, "notice", "", "", "timed_out", NoProgress))

RECURSIVE WriteTimeouts(_, _, _, _, _)
WriteTimeouts(sv, players, queue_name, timeouts, i) ==
    IF i > Len(players) THEN sv
    ELSE WriteTimeouts(TimeoutNotices(sv, players[i], queue_name, timeouts),
                       players, queue_name, timeouts, i + 1)

\* mutant: existing searches for the queue are left alone
CancelExisting_skipped(sv, player, queue_name) == sv

\* start_search, body of the loop that cancels the existing searches
CancelExisting(sv, player, queue_name) ==
    IF sv.raised THEN sv
    ELSE IF sv.searches[player][queue_name] # NoSearch
         THEN _cancel_search(sv, player, queue_name)
         ELSE sv

RECURSIVE CancelAllExisting(_, _, _, _)
CancelAllExisting(sv, players, queue_name, i) ==
    IF i > Len(players) THEN sv
    ELSE CancelAllExisting(CancelExisting(sv, players[i], queue_name),
                           players, queue_name, i + 1)

\* mutant: the player's state is left as it was
Register_keeps_state(sv, player, queue_name, search) ==
    LET b == write_rating_progress(sv, player, queue_rating_type(queue_name))
        c == Write(b, Msg(player, "search_info", queue_name, "start", "", NoProgress))
    IN  [c EXCEPT !.searches[player][queue_name] = search]

\* start_search, body of the loop that registers the new search
Register(sv, player, queue_name, search) ==
    LET a == [sv EXCEPT !.state[player] = SEARCHING_LADDER]
        b == write_rating_progress(a, player, queue_rating_type(queue_name))
        c == Write(b, Msg(player, "search_info", queue_name, "start", "", NoProgress))
    IN  [c EXCEPT !.searches[player][queue_name] = search]

RECURSIVE RegisterAll(_, _, _, _, _)
RegisterAll(sv, players, queue_name, search, i) ==
    IF i > Len(players) THEN sv
    ELSE RegisterAll(Register(sv, players[i], queue_name, search),
                     players, queue_name, search, i + 1)

\* LadderService.start_search; timeouts is what the violation service
\* answers, search the Search object the call creates
start_search(sv, players, queue_name, timeouts, search) ==
    IF timeouts # {}
    THEN WriteTimeouts(sv, players, queue_name, timeouts, 1)
    ELSE LET c == CancelAllExisting(sv, players, queue_name, 1)
         IN  IF c.raised THEN c
             \* queue = self.queues[queue_name]: KeyError
             ELSE IF queue_name \notin c.queues THEN [c EXCEPT !.raised = TRUE]
             ELSE RegisterAll(c, players, queue_name, search, 1)

\* on_match_found, the queue names of the player's other searches
OtherQueues(sv, player, queue_name) ==
    SelectSeq(QueueOrder,
              LAMBDA q : sv.searches[player][q] # NoSearch /\ q # queue_name)

\* mutant: the searches in other queues are not cancelled
MatchPlayer_keep_others(sv, player, queue_name) ==
    LET a == [sv EXCEPT !.state[player] = STARTING_AUTOMATCH]
        b == Write(a, Msg(player, "match_found", queue_name, "", "", NoProgress))
    IN  _clear_search(b, player, queue_name)

\* mutant: the winning search is cancelled like the others
MatchPlayer_cancel_winner(sv, player, queue_name) ==
    LET a == [sv EXCEPT !.state[player] = STARTING_AUTOMATCH]
        b == Write(a, Msg(player, "match_found", queue_name, "", "", NoProgress))
        c == CancelEach(b, player, OtherQueues(b, player, queue_name), 1)
    IN  _cancel_search(c, player, queue_name)

\* on_match_found, body of the loop over s1.players + s2.players
MatchPlayer(sv, player, queue_name) ==
    IF sv.raised THEN sv
    ELSE
    LET a == [sv EXCEPT !.state[player] = STARTING_AUTOMATCH]
        b == Write(a, Msg(player, "match_found", queue_name, "", "", NoProgress))
        c == CancelEach(b, player, OtherQueues(b, player, queue_name), 1)
    IN  IF c.raised THEN c ELSE _clear_search(c, player, queue_name)

RECURSIVE MatchPlayers(_, _, _, _)
MatchPlayers(sv, players, queue_name, i) ==
    IF i > Len(players) THEN sv
    ELSE MatchPlayers(MatchPlayer(sv, players[i], queue_name), players, queue_name, i + 1)

\* LadderService.on_match_found with s1.players, s2.players and queue.name;
\* an exception is logged, and then no start_game task is created
on_match_found(sv, s1_players, s2_players, queue_name) ==
    LET c == MatchPlayers(sv, s1_players \o s2_players, queue_name, 1)
    IN  IF c.raised \/ Len(s1_players) # Len(s2_players)
        THEN [c EXCEPT !.raised = FALSE, !.caught = TRUE]
        ELSE [c EXCEPT !.games = Append(@, [team1 |-> s1_players,
                                            team2 |-> s2_players,
                                            queue |-> queue_name])]

\* mutant: the registry entry and the informed flag are kept
on_connection_lost_keeps(sv, player) ==
    IF player = NoPlayer THEN sv
    ELSE cancel_search(sv, player, "None")

\* LadderService.on_connection_lost with conn.player
on_connection_lost(sv, player) ==
    IF player = NoPlayer THEN sv
    ELSE LET c == cancel_search(sv, player, "None")
         IN  IF c.raised THEN c
             ELSE [c EXCEPT !.searches[player] = [q \in QueueNames |-> NoSearch],
                            !.informed = @ \ {player}]

\* ------------------------------------------------------------ update_data
\* game_featuredMods.gamemod and matchmaker_queue_map_pool.map_pool_id
GameMods == {"faf", "fafbeta"}
PoolIds == {1, 2}

\* a row of the store's answer; bad: processing the row raises (its params
\* column is no JSON)
Row == [technical_name : QueueNames, gamemod : GameMods,
        bad : BOOLEAN, map_pool_id : PoolIds]

RowSeqsUpTo(len) == UNION {[1..n -> Row] : n \in 0..len}

RowSeqs == RowSeqsUpTo(MaxRows)

\* the position of name in a list of queue infos, 0 when it has none
RECURSIVE IndexOf(_, _, _)
IndexOf(infos, name, i) ==
    IF i > Len(infos) THEN 0
    ELSE IF infos[i].name = name THEN i
    ELSE IndexOf(infos, name, i + 1)

\* del matchmaker_queues[name]
WithoutQueue(infos, name) == SelectSeq(infos, LAMBDA info : info.name # name)

\* mutant: a queue that failed is not remembered, later rows load it again
FetchRow_forgets(acc, row) ==
    LET name == row.technical_name
        at == IndexOf(acc.queues, name, 1)
        \* info = matchmaker_queues[name] creates the entry
        infos == IF at = 0
                 THEN Append(acc.queues, [name |-> name, mod |-> "", map_pools |-> <<>>])
                 ELSE acc.queues
        k == IndexOf(infos, name, 1)
    IN  IF row.bad
        THEN [acc EXCEPT !.queues = WithoutQueue(infos, name)]
        ELSE [acc EXCEPT !.queues =
                 [infos EXCEPT ![k] = [name |-> name, mod |-> row.gamemod,
                                       map_pools |-> Append(infos[k].map_pools,
                                                            row.map_pool_id)]]]

\* fetch_matchmaker_queues, body of the loop over the rows
FetchRow(acc, row) ==
    LET name == row.technical_name
        at == IndexOf(acc.queues, name, 1)
        \* info = matchmaker_queues[name] creates the entry
        infos == IF at = 0
                 THEN Append(acc.queues, [name |-> name, mod |-> "", map_pools |-> <<>>])
                 ELSE acc.queues
        k == IndexOf(infos, name, 1)
    IN  IF name \in acc.errored THEN acc
        ELSE IF row.bad
        THEN [queues |-> WithoutQueue(infos, name),
              errored |-> acc.errored \cup {name}]
        ELSE [acc EXCEPT !.queues =
                 [infos EXCEPT ![k] = [name |-> name, mod |-> row.gamemod,
                                       map_pools |-> Append(infos[k].map_pools,
                                                            row.map_pool_id)]]]

RECURSIVE FetchRows(_, _, _)
FetchRows(acc, result, i) ==
    IF i > Len(result) THEN acc
    ELSE FetchRows(FetchRow(acc, result[i]), result, i + 1)

\* LadderService.fetch_matchmaker_queues: the queue infos in dict order
fetch_matchmaker_queues(result) ==
    FetchRows([queues |-> <<>>, errored |-> {}], result, 1).queues

\* the answers fetch_matchmaker_queues gives in a refresh
FetchResults == {fetch_matchmaker_queues(result) : result \in RowSeqsUpTo(MaxUpdateRows)}

\* what may go wrong in an update_data: nothing, the read of the store, the
\* fetch_rating_peak of one queue, or a map pool that is in no map_pool_maps
Faults ==
    {[kind |-> "none", queue |-> "None"], [kind |-> "store", queue |-> "None"],
     [kind |-> "map_pool", queue |-> "None"]}
    \cup {[kind |-> "rating_peak", queue |-> q] : q \in QueueNames}

\* the map pool that map_pool_maps lacks under the fault map_pool
MissingPool == 2

\* update_data, the loop over info["map_pools"]
RECURSIVE AddMapPools(_, _, _, _, _)
AddMapPools(st, name, map_pools, fault, i) ==
    IF i > Len(map_pools) THEN st
    \* map_pool_maps[map_pool_id]: KeyError
    ELSE IF fault.kind = "map_pool" /\ map_pools[i] = MissingPool
    THEN [st EXCEPT !.raised = TRUE]
    ELSE AddMapPools([st EXCEPT !.queues[name].map_pools = Append(@, map_pools[i])],
                     name, map_pools, fault, i + 1)

\* mutant: a queue that exists is replaced by a new object
UpdateQueue_recreates(st, info, fault) ==
    IF st.raised THEN st
    ELSE LET name == info.name
             a == [st EXCEPT
                     !.queues[name] = [id |-> st.queue_objects + 1,
                                       featured_mod |-> info.mod,
                                       rating_type |-> queue_rating_type(name),
                                       team_size |-> team_size(name),
                                       map_pools |-> <<>>],
                     !.queue_objects = @ + 1]
         IN  AddMapPools(a, name, info.map_pools, fault, 1)

\* update_data, body of the loop over db_queues
UpdateQueue(st, info, fault) ==
    IF st.raised THEN st
    ELSE LET name == info.name
             a == IF st.queues[name] = NoQueue
                  THEN [st EXCEPT
                          !.queues[name] = [id |-> st.queue_objects + 1,
                                            featured_mod |-> info.mod,
                                            rating_type |-> queue_rating_type(name),
                                            team_size |-> team_size(name),
                                            map_pools |-> <<>>],
                          !.queue_objects = @ + 1]
                  ELSE [st EXCEPT
                          !.queues[name].featured_mod = info.mod,
                          !.queues[name].rating_type = queue_rating_type(name),
                          !.queues[name].team_size = team_size(name),
                          \* await self.fetch_rating_peak(info["rating_type"])
                          !.raised = fault.kind = "rating_peak" /\ fault.queue = name]
         IN  IF a.raised THEN a
             \* queue.map_pools.clear()
             ELSE AddMapPools([a EXCEPT !.queues[name].map_pools = <<>>],
                              name, info.map_pools, fault, 1)

RECURSIVE UpdateQueues(_, _, _, _)
UpdateQueues(st, infos, fault, i) ==
    IF i > Len(infos) THEN st
    ELSE UpdateQueues(UpdateQueue(st, infos[i], fault), infos, fault, i + 1)

\* the names in a list of queue infos
InfoNames(infos) == {infos[i].name : i \in 1..Len(infos)}

\* update_data: remove queues that don't exist anymore
RemoveAbsent(st, infos) ==
    IF st.raised THEN st
    ELSE [st EXCEPT !.queues = [q \in QueueNames |->
                                   IF q \in InfoNames(infos) THEN @[q] ELSE NoQueue]]

\* LadderService.update_data on the queues qs, for the answer infos of
\* fetch_matchmaker_queues
update_data(qs, objects, infos, fault) ==
    IF fault.kind = "store"
    THEN [queues |-> qs, queue_objects |-> objects, raised |-> TRUE]
    ELSE RemoveAbsent(
            UpdateQueues([queues |-> qs, queue_objects |-> objects, raised |-> FALSE],
                         infos, fault, 1),
            infos)

\* ------------------------------------- MatchmakerQueue, Search, matchmaker
Min(S) == CHOOSE x \in S : \A y \in S : x <= y

RECURSIVE SetToSeq(_)
SetToSeq(S) == IF S = {} THEN <<>> ELSE <<Min(S)>> \o SetToSeq(S \ {Min(S)})

\* the players of a team, a set of Searches (one Search, or a combined one)
RECURSIVE TeamPlayersOf(_)
TeamPlayersOf(team_seq) ==
    IF team_seq = <<>> THEN <<>>
    ELSE search_obj[Head(team_seq)].players \o TeamPlayersOf(Tail(team_seq))

TeamPlayers(team) == TeamPlayersOf(SetToSeq(team))

\* team.get_original_searches() over both teams of a match
MatchSearches(match) == match.team1 \cup match.team2

MatchPlayers_(match) == Range(TeamPlayers(match.team1)) \cup Range(TeamPlayers(match.team2))

\* the Searches of a queue that a pop may use: held by the queue, neither
\* cancelled nor matched
ActiveSearches(queue_name) ==
    {s \in queue_set[queue_name] : s \notin cancelled /\ s \notin matched}

Teams(queue_name, active) ==
    {team \in SUBSET active :
        /\ team # {}
        /\ Len(TeamPlayers(team)) = team_size(queue_name)}

\* every match the matchmaker of a queue may propose from its Searches:
\* two teams of team_size players with no Search in common
Candidates(queue_name, active) ==
    {m \in [queue : {queue_name},
            team1 : Teams(queue_name, active),
            team2 : Teams(queue_name, active)] :
        /\ m.team1 \cap m.team2 = {}
        /\ Min(m.team1) < Min(m.team2)}

\* are_searches_disjoint
are_searches_disjoint(searches1, searches2) == searches1 \cap searches2 = {}

PairwiseDisjoint(matches) ==
    \A m1 \in matches, m2 \in matches :
        m1 # m2 => are_searches_disjoint(MatchSearches(m1), MatchSearches(m2))

\* MatchmakerQueue.find_matches (team queues): any list of candidates
find_matches(queue_name) == SUBSET Candidates(queue_name, ActiveSearches(queue_name))

\* MatchmakerQueue.find_matches1v1: any pairing of the 1v1 Searches
find_matches1v1(queue_name) ==
    {ms \in SUBSET Candidates(queue_name, ActiveSearches(queue_name)) : PairwiseDisjoint(ms)}

\* matches with pairwise disjoint player membership
NonColliding(matches) ==
    \A m1 \in matches, m2 \in matches :
        m1 # m2 => MatchPlayers_(m1) \cap MatchPlayers_(m2) = {}

\* TeamMatchMaker.pick_noncolliding_games: the non-colliding subsets with
\* the most matches
pick_noncolliding_games(games) ==
    {picked \in SUBSET games :
        /\ NonColliding(picked)
        /\ \A other \in SUBSET games :
              NonColliding(other) => Cardinality(other) <= Cardinality(picked)}

\* mutant: no 1v1 match is filtered out
has_no_overlap_always(match, matches_tmm_searches) == TRUE

\* has_no_overlap
has_no_overlap(match, matches_tmm_searches) ==
    LET searches_in_match == MatchSearches(match)
    IN  are_searches_disjoint(searches_in_match, matches_tmm_searches)

\* _add_matches_from1v1, for one 1v1 queue: the kept 1v1 matches
Kept1v1(picked, found_1v1) ==
    LET matches_tmm_searches == UNION {MatchSearches(m) : m \in picked}
    IN  {m \in found_1v1 : has_no_overlap(m, matches_tmm_searches)}

\* the matches a team queue may hand to _add_matches_from1v1: two teams of
\* one or two Searches each, no Search in both
FilterTeams == {t \in SUBSET (1..MaxFilterSearches) : Cardinality(t) \in 1..2}

TeamMatches ==
    {m \in [queue : {_queues_without1v1[1]}, team1 : FilterTeams, team2 : FilterTeams] :
        /\ m.team1 \cap m.team2 = {}
        /\ Min(m.team1) < Min(m.team2)}

\* the results of pick_noncolliding_games: at most two matches, no Search
\* in both
PickedMatches ==
    {{}} \cup {{m} : m \in TeamMatches}
         \cup {pair \in {{m1, m2} : m1 \in TeamMatches, m2 \in TeamMatches} :
                  PairwiseDisjoint(pair)}

\* the results of find_matches1v1: pairs of single Searches, no Search in
\* two pairs
Matches1v1 ==
    {m \in [queue : {_1v1queues[1]},
            team1 : {{s} : s \in 1..MaxFilterSearches},
            team2 : {{s} : s \in 1..MaxFilterSearches}] :
        Min(m.team1) < Min(m.team2)}

Found1v1 == {ms \in SUBSET Matches1v1 : PairwiseDisjoint(ms)}

\* a list of matches in the order of their first Search
RECURSIVE MatchList(_)
MatchList(ms) ==
    IF ms = {} THEN <<>>
    ELSE LET first == CHOOSE m \in ms :
                        \A o \in ms : Min(MatchSearches(m)) <= Min(MatchSearches(o))
         IN  <<first>> \o MatchList(ms \ {first})

\* MatchmakerQueue.found_matches, one match: a match with a cancelled or an
\* already matched Search is dropped; otherwise its Searches are marked
\* matched, leave the queue, and the on-matched callback runs
FoundMatch(d, match) ==
    IF \E s \in MatchSearches(match) : s \in d.sv.cancelled \/ s \in d.matched
    THEN d
    ELSE LET after == on_match_found(d.sv, TeamPlayers(match.team1),
                                     TeamPlayers(match.team2), match.queue)
         IN  [sv |-> after,
              matched |-> d.matched \cup MatchSearches(match),
              queue_set |-> [d.queue_set EXCEPT ![match.queue] = @ \ MatchSearches(match)],
              \* the call, with the positions of the messages it wrote
              calls |-> Append(d.calls, [match |-> match,
                                         from |-> Len(d.sv.msgs) + 1,
                                         to |-> Len(after.msgs)])]

RECURSIVE FoundMatches(_, _, _)
FoundMatches(d, match_list, i) ==
    IF i > Len(match_list) THEN d
    ELSE FoundMatches(FoundMatch(d, match_list[i]), match_list, i + 1)

\* LadderService._found_matches: every queue in turn gets its matches
RECURSIVE _found_matches(_, _, _)
_found_matches(d, matches, i) ==
    IF i > Len(QueueOrder) THEN d
    ELSE _found_matches(
            FoundMatches(d, MatchList({m \in matches : m.queue = QueueOrder[i]}), 1),
            matches, i + 1)

\* ---------------------------------------------------------------- actions
IsRatingNotice(m) ==
    m.command = "notice" /\ m.text \in {"welcome", "calibrating"}

NoticeCount(msgs, player) ==
    Cardinality({i \in 1..Len(msgs) : IsRatingNotice(msgs[i]) /\ msgs[i].player = player})

RatingNoticed(msgs) == {p \in Players : NoticeCount(msgs, p) > 0}

\* A Search object that nothing refers to any more is gone: its record and
\* its flags are dropped from the state
Tombstone == [players |-> <<>>, queue |-> "None"]

Registered(registry) ==
    {registry[p][q] : p \in Players, q \in QueueNames} \ {NoSearch}

\* the handlers' effects on the service, the players and the Searches
Commit(r, dead) ==
    /\ searches' = r.searches
    /\ player_state' = r.state
    /\ cancelled' = r.cancelled \ dead
    /\ informed_players' = r.informed
    /\ cancel_requested' = r.creq \ dead
    /\ start_game_tasks' = start_game_tasks \o r.games
    /\ rating_noticed' = rating_noticed \cup RatingNoticed(r.msgs)

\* the service after __init__: nobody searches, no task runs
InitService ==
    /\ searches = [p \in Players |-> [q \in QueueNames |-> NoSearch]]
    /\ informed_players = {}
    /\ player_state = [p \in Players |-> IDLE]
    /\ search_obj = <<>>
    /\ cancelled = {}
    /\ matched = {}
    /\ queue_set = [q \in QueueNames |-> {}]
    /\ task_pc = [s \in SearchIds |-> "none"]
    /\ pop_pc = "idle"
    /\ possible_games = {}
    /\ matches_tmm = {}
    /\ matches_1v1 = {}
    /\ start_game_tasks = <<>>
    /\ cancel_requested = {}
    /\ rating_noticed = {}
    /\ noticed_since_lost = {}
    /\ last_refused = FALSE
    /\ is_running = TRUE
    /\ pop_snapshot = 0
    /\ raises = 0
    /\ handed = [done |-> FALSE, matches |-> {}]
    /\ lobby_connection = {}
    /\ launch_pc = "none"
    /\ launch_in = NoLaunch
    /\ ladder_game = NoGame
    /\ launch_error = NoError
    /\ launch_msgs = <<>>
    /\ metrics_matches = [o \in MatchLaunch |-> 0]
    /\ violations = <<>>
    /\ slot_in = NoSlots
    /\ player_options = [done |-> FALSE, options |-> [p \in Players |-> NoOptions]]
    /\ the_game = NewGame
    /\ game_connections = NoConnections

\* self.queues after initialize(): the first update_data has created a
\* queue for every name of the store
InitQueues ==
    /\ queues = [q \in QueueNames |->
                    [id |-> IF q = QueueOrder[1] THEN 1 ELSE 2,
                     featured_mod |-> "faf",
                     rating_type |-> queue_rating_type(q),
                     team_size |-> team_size(q),
                     map_pools |-> <<1>>]]
    /\ queue_objects = Len(QueueOrder)

Init ==
    /\ InitService
    /\ InitQueues
    /\ rows = <<>>
    /\ db_queues = [done |-> FALSE, queues |-> <<>>]

\* a client asks to search: LadderService.start_search; at most limit
\* Search objects are created in a run
StartSearchBounded(limit, players, queue_name, timeouts) ==
    /\ timeouts = {} => Len(search_obj) < limit
    /\ LET search == Len(search_obj) + 1
           r == start_search(View, players, queue_name, timeouts, search)
           created == timeouts = {} /\ ~r.raised
       IN  /\ Commit(r, {})
           /\ search_obj' = IF created
                            THEN Append(search_obj, [players |-> players, queue |-> queue_name])
                            ELSE search_obj
           \* asyncio.create_task(queue.search(search))
           /\ task_pc' = IF created THEN [task_pc EXCEPT ![search] = "created"] ELSE task_pc
           /\ noticed_since_lost' = noticed_since_lost \cup RatingNoticed(r.msgs)
    /\ last_refused' = (timeouts # {})
    /\ UNCHANGED <<matched, queue_set, pop_pc, possible_games, matches_tmm, matches_1v1>>
    /\ UNCHANGED <<aside_vars, loop_vars>>

StartSearch(players, queue_name) ==
    StartSearchBounded(MaxSearches, players, queue_name, {})

\* a start_search while the violation service reports timeouts
StartSearchTimedOut(players, queue_name, timeouts) ==
    StartSearchBounded(MaxTimeoutSearches, players, queue_name, timeouts)

\* a client cancels: LadderService.cancel_search
CancelSearch(initiator, queue_name) ==
    /\ Commit(cancel_search(View, initiator, queue_name), {})
    /\ last_refused' = FALSE
    /\ UNCHANGED <<search_obj, matched, queue_set, task_pc, pop_pc, possible_games,
                   matches_tmm, matches_1v1, noticed_since_lost>>
    /\ UNCHANGED <<aside_vars, loop_vars>>

\* a lobby connection is lost: LadderService.on_connection_lost
ConnectionLost(player) ==
    /\ Commit(on_connection_lost(View, player), {})
    /\ noticed_since_lost' = noticed_since_lost \ {player}
    /\ last_refused' = FALSE
    /\ UNCHANGED <<search_obj, matched, queue_set, task_pc, pop_pc, possible_games,
                   matches_tmm, matches_1v1>>
    /\ UNCHANGED <<aside_vars, loop_vars>>

\* the Searches the running pop iteration holds in its local lists
PopRefs == UNION {MatchSearches(m) : m \in possible_games \cup matches_tmm \cup matches_1v1}

\* the task queue.search(search) of s ends: s leaves the queue
TaskEnds(s) ==
    LET dead == IF s \in Registered(searches) \cup PopRefs THEN {} ELSE {s}
    IN  /\ task_pc' = [task_pc EXCEPT ![s] = "done"]
        /\ queue_set' = [queue_set EXCEPT ![search_obj[s].queue] = @ \ {s}]
        /\ search_obj' = [i \in DOMAIN search_obj |->
                            IF i \in dead THEN Tombstone ELSE search_obj[i]]
        /\ cancelled' = cancelled \ dead
        /\ matched' = matched \ dead
        /\ cancel_requested' = cancel_requested \ dead

\* the task queue.search(search) starts: the Search is pushed to the queue
\* and awaited; awaiting an already cancelled Search raises at once
SearchTaskStart(s) ==
    /\ task_pc[s] = "created"
    /\ IF s \in cancelled \/ s \in matched
       THEN TaskEnds(s)
       ELSE /\ task_pc' = [task_pc EXCEPT ![s] = "awaiting"]
            /\ queue_set' = [queue_set EXCEPT ![search_obj[s].queue] = @ \cup {s}]
            /\ UNCHANGED <<search_obj, cancelled, matched, cancel_requested>>
    /\ last_refused' = FALSE
    /\ UNCHANGED <<searches, informed_players, player_state, pop_pc, possible_games,
                   matches_tmm, matches_1v1, start_game_tasks, rating_noticed,
                   noticed_since_lost>>
    /\ UNCHANGED <<aside_vars, loop_vars>>

\* await_match returns (matched) or raises (cancelled): the task ends
SearchTaskWake(s) ==
    /\ task_pc[s] = "awaiting"
    /\ s \in cancelled \/ s \in matched
    /\ TaskEnds(s)
    /\ last_refused' = FALSE
    /\ UNCHANGED <<searches, informed_players, player_state, pop_pc, possible_games,
                   matches_tmm, matches_1v1, start_game_tasks, rating_noticed,
                   noticed_since_lost>>
    /\ UNCHANGED <<aside_vars, loop_vars>>

\* _queue_pop_iteration up to its first suspension: find_matches of the
\* team queue is awaited
PopFindMatchesFrom(snapshot) ==
    /\ pop_pc = "idle"
    /\ possible_games' \in find_matches(_queues_without1v1[1])
    /\ pop_pc' = "find_matches"
    /\ pop_snapshot' = snapshot
    /\ last_refused' = FALSE
    /\ UNCHANGED <<searches, informed_players, player_state, search_obj,
                   cancelled, matched, queue_set, task_pc, matches_tmm, matches_1v1,
                   start_game_tasks, cancel_requested, rating_noticed, noticed_since_lost>>
    /\ UNCHANGED <<aside_vars, is_running, raises>>

\* the same step where the history of the iteration is not kept
PopFindMatches == PopFindMatchesFrom(pop_snapshot)

\* the same step, keeping how many Search objects existed when it ran
PopIterationStarts == PopFindMatchesFrom(Len(search_obj))

\* find_matches has returned: pick_noncolliding_games, then
\* _add_matches_from1v1 awaits find_matches1v1 of the 1v1 queue
PopPick ==
    /\ pop_pc = "find_matches"
    /\ matches_tmm' \in pick_noncolliding_games(possible_games)
    /\ matches_1v1' \in find_matches1v1(_1v1queues[1])
    /\ possible_games' = {}
    /\ pop_pc' = "find_matches1v1"
    /\ last_refused' = FALSE
    /\ UNCHANGED <<searches, informed_players, player_state, search_obj,
                   cancelled, matched, queue_set, task_pc, start_game_tasks,
                   cancel_requested, rating_noticed, noticed_since_lost>>
    /\ UNCHANGED <<aside_vars, loop_vars>>

\* _add_matches_from1v1 after find_matches1v1 has returned: the list handed
\* to _found_matches
Dispatched == matches_tmm \cup Kept1v1(matches_tmm, matches_1v1)

\* _found_matches(Dispatched) run on the current state
Dispatch ==
    _found_matches([sv |-> View, matched |-> matched, queue_set |-> queue_set,
                    calls |-> <<>>], Dispatched, 1)

\* find_matches1v1 has returned: the 1v1 matches are filtered and added,
\* and _found_matches dispatches all of them
PopDispatch ==
    /\ pop_pc = "find_matches1v1"
    /\ LET d == Dispatch
           dead == {s \in DOMAIN search_obj :
                      /\ task_pc[s] = "done"
                      /\ s \notin Registered(d.sv.searches)}
       IN  /\ Commit(d.sv, dead)
           /\ matched' = d.matched \ dead
           /\ queue_set' = d.queue_set
           /\ search_obj' = [i \in DOMAIN search_obj |->
                               IF i \in dead THEN Tombstone ELSE search_obj[i]]
    \* back to "while self._is_running", then timer.next_pop()
    /\ pop_pc' = IF is_running THEN "idle" ELSE "stopped"
    /\ pop_snapshot' = 0
    /\ matches_tmm' = {}
    /\ matches_1v1' = {}
    /\ last_refused' = FALSE
    /\ UNCHANGED <<task_pc, possible_games, noticed_since_lost>>
    /\ UNCHANGED <<aside_vars, is_running, raises>>

\* the running _queue_pop_iteration is abandoned: its local lists are
\* dropped, and with them the Searches nothing else refers to
DropLocals ==
    LET dead == {s \in DOMAIN search_obj :
                   /\ task_pc[s] = "done"
                   /\ s \notin Registered(searches)}
    IN  /\ possible_games' = {}
        /\ matches_tmm' = {}
        /\ matches_1v1' = {}
        /\ pop_snapshot' = 0
        /\ search_obj' = [i \in DOMAIN search_obj |->
                            IF i \in dead THEN Tombstone ELSE search_obj[i]]
        /\ cancelled' = cancelled \ dead
        /\ matched' = matched \ dead
        /\ cancel_requested' = cancel_requested \ dead
        /\ last_refused' = FALSE
        /\ UNCHANGED <<searches, informed_players, player_state, queue_set, task_pc,
                       start_game_tasks, rating_noticed, noticed_since_lost>>
        /\ UNCHANGED aside_vars

\* LadderService.shutdown
Shutdown ==
    /\ is_running
    /\ is_running' = FALSE
    /\ last_refused' = FALSE
    /\ UNCHANGED <<searches, informed_players, player_state, search_obj,
                   cancelled, matched, queue_set, task_pc, pop_pc, possible_games,
                   matches_tmm, matches_1v1, start_game_tasks, cancel_requested,
                   rating_noticed, noticed_since_lost, pop_snapshot, raises>>
    /\ UNCHANGED aside_vars

\* mutant: an exception ends the pop loop
PopRaises_ends ==
    /\ pop_pc \in {"idle", "find_matches", "find_matches1v1"}
    /\ raises < MaxRaises
    /\ raises' = raises + 1
    /\ pop_pc' = "stopped"
    /\ DropLocals
    /\ UNCHANGED is_running

\* _queue_pop_timer: timer.next_pop or _queue_pop_iteration raises an
\* Exception at one of its awaits; it is logged and asyncio.sleep(1) awaited
PopRaises ==
    /\ pop_pc \in {"idle", "find_matches", "find_matches1v1"}
    /\ raises < MaxRaises
    /\ raises' = raises + 1
    /\ pop_pc' = "sleep"
    /\ DropLocals
    /\ UNCHANGED is_running

\* asyncio.sleep(1) returns: back to "while self._is_running"
PopSleepDone ==
    /\ pop_pc = "sleep"
    /\ pop_pc' = IF is_running THEN "idle" ELSE "stopped"
    /\ DropLocals
    /\ UNCHANGED <<is_running, raises>>

\* the task of _queue_pop_timer is cancelled: CancelledError is raised at
\* the await it is suspended in, and the loop breaks (or, from the sleep in
\* the handler, the task ends with the CancelledError)
PopTaskCancelled ==
    /\ pop_pc \in {"idle", "find_matches", "find_matches1v1", "sleep"}
    /\ pop_pc' = "cancelled"
    /\ DropLocals
    /\ UNCHANGED <<is_running, raises>>

\* the cron job or initialize() runs LadderService.update_data: the store
\* answers infos, and fault says what goes wrong
UpdateData(infos, fault) ==
    LET r == update_data(queues, queue_objects, infos, fault)
    IN  /\ r.queue_objects <= MaxQueueObjects
        /\ queues' = r.queues
        /\ queue_objects' = r.queue_objects
        /\ last_refused' = FALSE
        /\ UNCHANGED <<searches, informed_players, player_state, search_obj,
                       cancelled, matched, queue_set, task_pc, pop_pc, possible_games,
                       matches_tmm, matches_1v1, start_game_tasks, cancel_requested,
                       rating_noticed, noticed_since_lost>>
        /\ UNCHANGED <<fetch_vars, filter_vars, loop_vars, launch_vars, slot_vars, game_vars>>

\* fetch_matchmaker_queues on the rows the store returned
FetchMatchmakerQueues ==
    /\ ~db_queues.done
    /\ db_queues' = [done |-> TRUE, queues |-> fetch_matchmaker_queues(rows)]
    /\ UNCHANGED <<searches, informed_players, player_state, search_obj,
                   cancelled, matched, queue_set, task_pc, pop_pc, possible_games,
                   matches_tmm, matches_1v1, start_game_tasks, cancel_requested,
                   rating_noticed, noticed_since_lost, last_refused, update_vars, rows,
                   filter_vars, loop_vars, launch_vars, slot_vars, game_vars>>

\* ------------------------------------------------ _start_game, launch_match
\* all_players = team1 + team2, host = team1[0], all_guests = all_players[1:]
all_players(t) == t.team1 \o t.team2
Host(t) == t.team1[1]
all_guests(t) == Tail(all_players(t))

\* the part of the state one run of _start_game works on
LaunchView ==
    [conn |-> lobby_connection, pc |-> launch_pc, game |-> ladder_game,
     error |-> launch_error, msgs |-> launch_msgs, metrics |-> metrics_matches,
     violations |-> violations, state |-> player_state]

\* lobby_connection.write_launch_game(game, is_host=...)
LaunchMsg(player, is_host, game_id) ==
    [player |-> player, command |-> "launch_game", is_host |-> is_host, game_id |-> game_id]

\* {"command": "match_cancelled", "game_id": game_id}; game_id 0 is None
CancelMsg(player, game_id) ==
    [player |-> player, command |-> "match_cancelled", is_host |-> FALSE, game_id |-> game_id]

\* raise kind(players), at the step at
Raise(lv, kind, players, at) ==
    [lv EXCEPT !.error = [kind |-> kind, players |-> players, at |-> at]]

\* mutant: an exception of the try block is not replaced
launch_guests_keeps_error(lv, t) ==
    LET guests == all_guests(t)
        not_connected_guests == SelectSeq(guests, LAMBDA player : player \notin lv.conn)
    IN  IF lv.error # NoError THEN lv
        ELSE IF not_connected_guests # <<>>
        THEN Raise(lv, "NotConnectedError", not_connected_guests, "guest_connections")
        ELSE [lv EXCEPT !.msgs = @ \o [i \in 1..Len(guests) |->
                                          LaunchMsg(guests[i], FALSE, lv.game.id)]]

\* launch_match, the finally block after wait_hosted: launch the guests;
\* an exception raised here replaces the one of the try block
launch_guests(lv, t) ==
    LET guests == all_guests(t)
        not_connected_guests == SelectSeq(guests, LAMBDA player : player \notin lv.conn)
    IN  IF not_connected_guests # <<>>
        THEN Raise(lv, "NotConnectedError", not_connected_guests, "guest_connections")
        ELSE [lv EXCEPT !.msgs = @ \o [i \in 1..Len(guests) |->
                                          LaunchMsg(guests[i], FALSE, lv.game.id)]]

\* mutant: everybody without a connection is named
launch_match_names_all(lv, t) ==
    IF Host(t) \notin lv.conn
    THEN Raise(lv, "NotConnectedError",
               SelectSeq(all_players(t), LAMBDA player : player \notin lv.conn),
               "host_connection")
    ELSE [lv EXCEPT !.msgs = Append(@, LaunchMsg(Host(t), TRUE, lv.game.id)),
                    !.pc = "wait_hosted"]

\* launch_match up to "await game.wait_hosted(60)"
launch_match(lv, t) ==
    IF Host(t) \notin lv.conn
    THEN Raise(lv, "NotConnectedError", <<Host(t)>>, "host_connection")
    ELSE [lv EXCEPT !.msgs = Append(@, LaunchMsg(Host(t), TRUE, lv.game.id)),
                    !.pc = "wait_hosted"]

\* mutant: a timeout of wait_hosted leaves launch_match at once
wait_hosted_skips_guests(lv, t, outcome, who) ==
    LET tried == CASE outcome = "closed" ->
                        Raise(lv, "GameClosedError", <<who>>, "wait_hosted")
                   [] OTHER -> lv
        after == launch_guests(tried, t)
    IN  IF outcome = "timeout"
        THEN Raise(lv, "NotConnectedError", <<Host(t)>>, "wait_hosted")
        ELSE IF after.error = NoError THEN [after EXCEPT !.pc = "wait_launched"]
        ELSE after

\* launch_match from the return of game.wait_hosted to
\* "await game.wait_launched(...)"
wait_hosted(lv, t, outcome, who) ==
    LET tried == CASE outcome = "timeout" ->
                        Raise(lv, "NotConnectedError", <<Host(t)>>, "wait_hosted")
                   [] outcome = "closed" ->
                        Raise(lv, "GameClosedError", <<who>>, "wait_hosted")
                   [] OTHER -> lv
        after == launch_guests(tried, t)
    IN  IF after.error = NoError THEN [after EXCEPT !.pc = "wait_launched"] ELSE after

\* mutant: the host is named with the guests
wait_launched_names_host(lv, t, outcome, who) ==
    CASE outcome = "timeout" ->
            Raise(lv, "NotConnectedError",
                  SelectSeq(all_players(t), LAMBDA player : player \notin lv.game.connected),
                  "wait_launched")
      [] outcome = "closed" ->
            Raise(lv, "GameClosedError", <<who>>, "wait_launched")
      [] OTHER ->
            [lv EXCEPT !.metrics["SUCCESSFUL"] = @ + 1, !.pc = "done"]

\* launch_match from the return of game.wait_launched, and the end of the
\* try block of _start_game
wait_launched(lv, t, outcome, who) ==
    CASE outcome = "timeout" ->
            Raise(lv, "NotConnectedError",
                  SelectSeq(all_guests(t), LAMBDA player : player \notin lv.game.connected),
                  "wait_launched")
      [] outcome = "closed" ->
            Raise(lv, "GameClosedError", <<who>>, "wait_launched")
      [] OTHER ->
            [lv EXCEPT !.metrics["SUCCESSFUL"] = @ + 1, !.pc = "done"]

\* mutant: the game is created before the map pool is looked up
start_game_creates_first(lv, t, history) ==
    IF history = "raises"
    THEN Raise(lv, "Exception", <<>>, "get_game_history")
    ELSE IF history = "timeout"
    THEN Raise(lv, "TimeoutError", <<>>, "get_game_history")
    ELSE IF ~t.pool
    THEN Raise([lv EXCEPT !.game = [id |-> 1, connected |-> {}, finished |-> FALSE]],
               "RuntimeError", <<>>, "get_map_pool_for_rating")
    ELSE launch_match([lv EXCEPT !.game = [id |-> 1, connected |-> {}, finished |-> FALSE]], t)

\* _start_game from the return of get_game_history to the first await of
\* launch_match
start_game(lv, t, history) ==
    IF history = "raises"
    THEN Raise(lv, "Exception", <<>>, "get_game_history")
    \* the store does not answer in time: asyncio.TimeoutError
    ELSE IF history = "timeout"
    THEN Raise(lv, "TimeoutError", <<>>, "get_game_history")
    ELSE IF ~t.pool
    THEN Raise(lv, "RuntimeError", <<>>, "get_map_pool_for_rating")
    ELSE launch_match([lv EXCEPT !.game = [id |-> 1, connected |-> {}, finished |-> FALSE]], t)

\* mutant: match_cancelled never names a game
cancel_match_null_id(lv, t) ==
    LET players == all_players(t)
        abandoning_players ==
            IF lv.error.kind \in {"NotConnectedError", "GameClosedError"}
            THEN lv.error.players ELSE <<>>
    IN  [lv EXCEPT
           !.msgs = @ \o [i \in 1..Len(players) |-> CancelMsg(players[i], 0)],
           !.state = [p \in Players |->
                        IF p \in Range(players) /\ @[p] = STARTING_AUTOMATCH
                        THEN IDLE ELSE @[p]],
           !.violations = IF abandoning_players # <<>>
                          THEN Append(@, abandoning_players) ELSE @,
           !.pc = "done"]

\* _start_game, the handler after "await game.on_game_finish()"
cancel_match(lv, t) ==
    LET players == all_players(t)
        abandoning_players ==
            IF lv.error.kind \in {"NotConnectedError", "GameClosedError"}
            THEN lv.error.players ELSE <<>>
    IN  [lv EXCEPT
           !.msgs = @ \o [i \in 1..Len(players) |-> CancelMsg(players[i], lv.game.id)],
           !.state = [p \in Players |->
                        IF p \in Range(players) /\ @[p] = STARTING_AUTOMATCH
                        THEN IDLE ELSE @[p]],
           !.violations = IF abandoning_players # <<>>
                          THEN Append(@, abandoning_players) ELSE @,
           !.pc = "done"]

\* mutant: a closed game counts as a timeout
except_handler_closed_is_timeout(lv, t) ==
    LET outcome == CASE lv.error.kind \in {"NotConnectedError", "GameClosedError"} ->
                          "TIMED_OUT"
                     [] OTHER -> "ERRORED"
        counted == [lv EXCEPT !.metrics[outcome] = @ + 1]
    IN  IF lv.error.kind = "TimeoutError"
        THEN [lv EXCEPT !.error.kind = "AssertionError", !.pc = "crashed"]
        ELSE IF lv.game.id # 0
        THEN [counted EXCEPT !.pc = "on_game_finish"]
        ELSE cancel_match(counted, t)

\* _start_game, "except Exception as e" up to its await
except_handler(lv, t) ==
    LET outcome == CASE lv.error.kind = "NotConnectedError" -> "TIMED_OUT"
                     [] lv.error.kind = "GameClosedError" -> "ABORTED_BY_PLAYER"
                     [] OTHER -> "ERRORED"
        counted == [lv EXCEPT !.metrics[outcome] = @ + 1]
    IN  \* assert not isinstance(e, asyncio.TimeoutError): the AssertionError
        \* leaves the handler and ends the task
        IF lv.error.kind = "TimeoutError"
        THEN [lv EXCEPT !.error.kind = "AssertionError", !.pc = "crashed"]
        ELSE IF lv.game.id # 0
        THEN [counted EXCEPT !.pc = "on_game_finish"]
        ELSE cancel_match(counted, t)

\* a step of the try block, with the handler when it raised
Try(r, t) == IF r.error # NoError THEN except_handler(r, t) ELSE r

CommitLaunch(r) ==
    /\ launch_pc' = r.pc
    /\ ladder_game' = r.game
    /\ launch_error' = r.error
    /\ launch_msgs' = r.msgs
    /\ metrics_matches' = r.metrics
    /\ violations' = r.violations
    /\ player_state' = r.state
    /\ UNCHANGED <<lobby_connection, launch_in>>
    /\ UNCHANGED <<searches, informed_players, search_obj, cancelled, matched,
                   queue_set, task_pc, pop_pc, possible_games, matches_tmm,
                   matches_1v1, start_game_tasks, cancel_requested, rating_noticed,
                   noticed_since_lost, last_refused, update_vars, fetch_vars,
                   filter_vars, loop_vars, slot_vars, game_vars>>

\* get_game_history returns or raises, and _start_game runs on
StartGame(history) ==
    /\ launch_pc = "get_game_history"
    /\ CommitLaunch(Try(start_game(LaunchView, launch_in, history), launch_in))

\* game.wait_hosted returns, times out, or who closes their game
WaitHosted(outcome, who) ==
    /\ launch_pc = "wait_hosted"
    /\ CommitLaunch(Try(wait_hosted(LaunchView, launch_in, outcome, who), launch_in))

\* game.wait_launched returns, times out, or who closes their game
WaitLaunched(outcome, who) ==
    /\ launch_pc = "wait_launched"
    /\ CommitLaunch(Try(wait_launched(LaunchView, launch_in, outcome, who), launch_in))

\* game.on_game_finish returns
OnGameFinish ==
    /\ launch_pc = "on_game_finish"
    /\ CommitLaunch(cancel_match([LaunchView EXCEPT !.game.finished = TRUE], launch_in))

\* a player of the match loses the lobby connection while the launch runs
LobbyConnectionLost(player) ==
    /\ launch_pc \in {"get_game_history", "wait_hosted", "wait_launched", "on_game_finish"}
    /\ player \in lobby_connection
    /\ lobby_connection' = lobby_connection \ {player}
    /\ UNCHANGED <<launch_pc, launch_in, ladder_game, launch_error, launch_msgs,
                   metrics_matches, violations, player_state>>
    /\ UNCHANGED <<searches, informed_players, search_obj, cancelled, matched,
                   queue_set, task_pc, pop_pc, possible_games, matches_tmm,
                   matches_1v1, start_game_tasks, cancel_requested, rating_noticed,
                   noticed_since_lost, last_refused, update_vars, fetch_vars,
                   filter_vars, loop_vars, slot_vars, game_vars>>

\* a player's game connects to the hosted game
GameConnected(player) ==
    /\ launch_pc \in {"wait_hosted", "wait_launched"}
    /\ player \in Range(all_players(launch_in)) \ ladder_game.connected
    /\ ladder_game' = [ladder_game EXCEPT !.connected = @ \cup {player}]
    /\ UNCHANGED <<lobby_connection, launch_pc, launch_in, launch_error, launch_msgs,
                   metrics_matches, violations, player_state>>
    /\ UNCHANGED <<searches, informed_players, search_obj, cancelled, matched,
                   queue_set, task_pc, pop_pc, possible_games, matches_tmm,
                   matches_1v1, start_game_tasks, cancel_requested, rating_noticed,
                   noticed_since_lost, last_refused, update_vars, fetch_vars,
                   filter_vars, loop_vars, slot_vars, game_vars>>

\* --------------------------------------------- _start_game, the slots
\* sorted(team, key=get_player_mean): a stable sort, players of equal mean
\* keep their order
RECURSIVE InsertByMean(_, _, _)
InsertByMean(sorted, player, mean) ==
    IF sorted = <<>> THEN <<player>>
    ELSE IF mean[Head(sorted)] <= mean[player]
    THEN <<Head(sorted)>> \o InsertByMean(Tail(sorted), player, mean)
    ELSE <<player>> \o sorted

RECURSIVE SortedByMean(_, _, _)
SortedByMean(team, mean, i) ==
    IF i = 0 THEN <<>>
    ELSE InsertByMean(SortedByMean(team, mean, i - 1), team[i], mean)

\* mutant: the teams are zipped in the order they came in
zipped_teams_unsorted(in) ==
    [k \in 1..Len(in.shuffle) |-> <<in.team1[in.shuffle[k]], in.team2[in.shuffle[k]]>>]

\* list(zip(team1, team2)) after random.shuffle, where shuffle is the
\* permutation random.shuffle has applied
zipped_teams(in) ==
    LET team1 == SortedByMean(in.team1, in.mean, Len(in.team1))
        team2 == SortedByMean(in.team2, in.mean, Len(in.team2))
    IN  [k \in 1..Len(in.shuffle) |-> <<team1[in.shuffle[k]], team2[in.shuffle[k]]>>]

\* "player for pair in zipped_teams for player in pair"
SlotOrder(in) ==
    LET zipped == zipped_teams(in)
    IN  [j \in 1..(2 * Len(zipped)) |-> zipped[(j + 1) \div 2][2 - (j % 2)]]

\* mutant: the team follows the slot, not the index
slot_options_by_slot(i) ==
    LET slot == i + 1
        team == (slot % 2) + 2
    IN  [Team |-> team, StartSpot |-> slot, Army |-> slot, Color |-> slot]

\* the options of the player with index i of the enumeration
slot_options(i) ==
    LET slot == i + 1
        team == (i % 2) + 2
    IN  [Team |-> team, StartSpot |-> slot, Army |-> slot, Color |-> slot]

\* _start_game, the loop over enumerate(...)
assign_slots(in) ==
    LET order == SlotOrder(in)
    IN  [p \in Players |->
            IF \E j \in 1..Len(order) : order[j] = p
            THEN slot_options((CHOOSE j \in 1..Len(order) :
                                  /\ order[j] = p
                                  /\ \A l \in (j + 1)..Len(order) : order[l] # p) - 1)
            ELSE NoOptions]

\* the slot assignment of _start_game runs
AssignSlots ==
    /\ ~player_options.done
    /\ player_options' = [done |-> TRUE, options |-> assign_slots(slot_in)]
    /\ UNCHANGED <<searches, informed_players, player_state, search_obj,
                   cancelled, matched, queue_set, task_pc, pop_pc, possible_games,
                   matches_tmm, matches_1v1, start_game_tasks, cancel_requested,
                   rating_noticed, noticed_since_lost, last_refused, update_vars,
                   fetch_vars, filter_vars, loop_vars, launch_vars, slot_in, game_vars>>

\* _add_matches_from1v1 on the picked team matches and the 1v1 matches the
\* 1v1 queue has found
AddMatchesFrom1v1 ==
    /\ ~handed.done
    /\ handed' = [done |-> TRUE, matches |-> Dispatched]
    /\ UNCHANGED <<searches, informed_players, player_state, search_obj,
                   cancelled, matched, queue_set, task_pc, pop_pc, possible_games,
                   matches_tmm, matches_1v1, start_game_tasks, cancel_requested,
                   rating_noticed, noticed_since_lost, last_refused, update_vars,
                   fetch_vars, loop_vars, launch_vars, slot_vars, game_vars>>

Next ==
    \/ \E q \in QueueNames : \E players \in Parties(q) : StartSearch(players, q)
    \/ \E p \in Players : \E q \in QueueNames \cup {"None"} : CancelSearch(p, q)
    \/ \E p \in (1..MaxLost) \cup {NoPlayer} : ConnectionLost(p)
    \/ \E s \in SearchIds : SearchTaskStart(s)
    \/ \E s \in SearchIds : SearchTaskWake(s)
    \/ PopFindMatches
    \/ PopPick
    \/ PopDispatch

Spec == Init /\ [][Next]_vars

\* the same service while the violation service may report timeouts for
\* any player of a request
NextTimeout ==
    \/ \E q \in QueueNames : \E players \in Parties(q) :
         \E timeouts \in SUBSET Range(players) : StartSearchTimedOut(players, q, timeouts)
    \/ \E p \in Players : \E q \in QueueNames \cup {"None"} : CancelSearch(p, q)
    \/ \E p \in (1..MaxLost) \cup {NoPlayer} : ConnectionLost(p)
    \/ \E s \in SearchIds : SearchTaskStart(s)
    \/ \E s \in SearchIds : SearchTaskWake(s)
    \/ PopFindMatches
    \/ PopPick
    \/ PopDispatch

SpecTimeout == Init /\ [][NextTimeout]_vars

\* the pop iteration alone: players search and are matched, nobody cancels
NextPop ==
    \/ \E q \in QueueNames : \E players \in Parties(q) :
         StartSearchBounded(MaxPopSearches, players, q, {})
    \/ \E s \in SearchIds : SearchTaskStart(s)
    \/ \E s \in SearchIds : SearchTaskWake(s)
    \/ PopFindMatches
    \/ PopPick
    \/ PopDispatch

SpecPop == Init /\ [][NextPop]_vars

\* the pop loop of the service, with its exceptions, its cancellation and
\* shutdown
NextLoop ==
    \/ \E q \in QueueNames : \E players \in Parties(q) :
         StartSearchBounded(MaxLoopSearches, players, q, {})
    \/ \E s \in SearchIds : SearchTaskStart(s)
    \/ \E s \in SearchIds : SearchTaskWake(s)
    \/ PopIterationStarts
    \/ PopPick
    \/ PopDispatch
    \/ PopRaises
    \/ PopSleepDone
    \/ PopTaskCancelled
    \/ Shutdown

SpecLoop == Init /\ [][NextLoop]_vars

\* the service while its queues are refreshed from the store
NextUpdate ==
    \/ \E q \in QueueNames : \E players \in Parties(q) :
            StartSearchBounded(MaxUpdateSearches, players, q, {})
    \/ \E s \in SearchIds : SearchTaskStart(s)
    \/ \E infos \in FetchResults : \E fault \in Faults : UpdateData(infos, fault)

SpecUpdate == Init /\ [][NextUpdate]_vars

\* one read of the store, for any rows it may return
InitFetch ==
    /\ InitService
    /\ InitQueues
    /\ rows \in RowSeqs
    /\ db_queues = [done |-> FALSE, queues |-> <<>>]

SpecFetch == InitFetch /\ [][FetchMatchmakerQueues]_vars

\* one call of _add_matches_from1v1, for any picked team matches and any
\* 1v1 matches
InitFilter ==
    /\ searches = [p \in Players |-> [q \in QueueNames |-> NoSearch]]
    /\ informed_players = {}
    /\ player_state = [p \in Players |-> IDLE]
    /\ search_obj = <<>>
    /\ cancelled = {}
    /\ matched = {}
    /\ queue_set = [q \in QueueNames |-> {}]
    /\ task_pc = [s \in SearchIds |-> "none"]
    /\ pop_pc = "find_matches1v1"
    /\ possible_games = {}
    /\ matches_tmm \in PickedMatches
    /\ matches_1v1 \in Found1v1
    /\ start_game_tasks = <<>>
    /\ cancel_requested = {}
    /\ rating_noticed = {}
    /\ noticed_since_lost = {}
    /\ last_refused = FALSE
    /\ is_running = TRUE
    /\ pop_snapshot = 0
    /\ raises = 0
    /\ handed = [done |-> FALSE, matches |-> {}]
    /\ lobby_connection = {}
    /\ launch_pc = "none"
    /\ launch_in = NoLaunch
    /\ ladder_game = NoGame
    /\ launch_error = NoError
    /\ launch_msgs = <<>>
    /\ metrics_matches = [o \in MatchLaunch |-> 0]
    /\ violations = <<>>
    /\ slot_in = NoSlots
    /\ player_options = [done |-> FALSE, options |-> [p \in Players |-> NoOptions]]
    /\ the_game = NewGame
    /\ game_connections = NoConnections
    /\ InitQueues
    /\ rows = <<>>
    /\ db_queues = [done |-> FALSE, queues |-> <<>>]

SpecFilter == InitFilter /\ [][AddMatchesFrom1v1]_vars

\* the matches _start_game is called for
LaunchTeams ==
    {[team1 |-> <<1>>, team2 |-> <<2>>], [team1 |-> <<1, 2>>, team2 |-> <<3, 4>>]}

\* one run of _start_game, for any teams, connections and player states
InitLaunch ==
    /\ searches = [p \in Players |-> [q \in QueueNames |-> NoSearch]]
    /\ informed_players = {}
    /\ search_obj = <<>>
    /\ cancelled = {}
    /\ matched = {}
    /\ queue_set = [q \in QueueNames |-> {}]
    /\ task_pc = [s \in SearchIds |-> "none"]
    /\ pop_pc = "idle"
    /\ possible_games = {}
    /\ matches_tmm = {}
    /\ matches_1v1 = {}
    /\ start_game_tasks = <<>>
    /\ cancel_requested = {}
    /\ rating_noticed = {}
    /\ noticed_since_lost = {}
    /\ last_refused = FALSE
    /\ is_running = TRUE
    /\ pop_snapshot = 0
    /\ raises = 0
    /\ handed = [done |-> FALSE, matches |-> {}]
    /\ InitQueues
    /\ rows = <<>>
    /\ db_queues = [done |-> FALSE, queues |-> <<>>]
    /\ \E t \in LaunchTeams : \E pool \in BOOLEAN :
          /\ launch_in = [team1 |-> t.team1, team2 |-> t.team2, pool |-> pool]
          /\ lobby_connection \in SUBSET Range(all_players(t))
          /\ player_state \in {f \in [Players -> {IDLE, STARTING_AUTOMATCH}] :
                                 \A p \in Players \ Range(all_players(t)) : f[p] = IDLE}
    /\ launch_pc = "get_game_history"
    /\ ladder_game = NoGame
    /\ launch_error = NoError
    /\ launch_msgs = <<>>
    /\ metrics_matches = [o \in MatchLaunch |-> 0]
    /\ violations = <<>>
    /\ slot_in = NoSlots
    /\ player_options = [done |-> FALSE, options |-> [p \in Players |-> NoOptions]]
    /\ the_game = NewGame
    /\ game_connections = NoConnections

NextLaunch ==
    \/ \E history \in {"returns", "raises", "timeout"} : StartGame(history)
    \/ \E outcome \in {"returns", "timeout", "closed"} :
         \E who \in Range(all_players(launch_in)) : WaitHosted(outcome, who)
    \/ \E outcome \in {"returns", "timeout", "closed"} :
         \E who \in Range(all_players(launch_in)) : WaitLaunched(outcome, who)
    \/ OnGameFinish
    \/ \E player \in Players : LobbyConnectionLost(player)
    \/ \E player \in Players : GameConnected(player)

SpecLaunch == InitLaunch /\ [][NextLaunch]_vars

\* the injective sequences of n players, and the permutations of 1..n
Lineups(n) == {t \in [1..n -> Players] : \A i \in 1..n : \A j \in 1..n : t[i] = t[j] => i = j}
Shuffles(n) == {f \in [1..n -> 1..n] : \A i \in 1..n : \A j \in 1..n : f[i] = f[j] => i = j}

\* the inputs of a slot assignment: two teams of the same size with no
\* player in both, the players' rating means, and the shuffle
SlotInputs ==
    UNION {[team1 : Lineups(n), team2 : Lineups(n),
            mean : [Players -> 1..MaxMean], shuffle : Shuffles(n)] :
           n \in 1..MaxTeamSize}

\* one slot assignment, for any teams, rating means and shuffle
InitSlots ==
    /\ searches = [p \in Players |-> [q \in QueueNames |-> NoSearch]]
    /\ informed_players = {}
    /\ player_state = [p \in Players |-> IDLE]
    /\ search_obj = <<>>
    /\ cancelled = {}
    /\ matched = {}
    /\ queue_set = [q \in QueueNames |-> {}]
    /\ task_pc = [s \in SearchIds |-> "none"]
    /\ pop_pc = "idle"
    /\ possible_games = {}
    /\ matches_tmm = {}
    /\ matches_1v1 = {}
    /\ start_game_tasks = <<>>
    /\ cancel_requested = {}
    /\ rating_noticed = {}
    /\ noticed_since_lost = {}
    /\ last_refused = FALSE
    /\ is_running = TRUE
    /\ pop_snapshot = 0
    /\ raises = 0
    /\ handed = [done |-> FALSE, matches |-> {}]
    /\ InitQueues
    /\ rows = <<>>
    /\ db_queues = [done |-> FALSE, queues |-> <<>>]
    /\ lobby_connection = {}
    /\ launch_pc = "none"
    /\ launch_in = NoLaunch
    /\ ladder_game = NoGame
    /\ launch_error = NoError
    /\ launch_msgs = <<>>
    /\ metrics_matches = [o \in MatchLaunch |-> 0]
    /\ violations = <<>>
    /\ slot_in \in {in \in SlotInputs : Range(in.team1) \cap Range(in.team2) = {}}
    /\ player_options = [done |-> FALSE, options |-> [p \in Players |-> NoOptions]]
    /\ the_game = NewGame
    /\ game_connections = NoConnections

SpecSlots == InitSlots /\ [][AssignSlots]_vars

\* -------------------------------------------------------------- games.Game
\* Game.players
game_players(g) ==
    IF g.state = "LIVE" THEN g.players
    ELSE IF g.state = "LOBBY" THEN {p \in GamePlayers : g.connections[p] # 0}
    ELSE {}

\* Game.armies: the option 'Army' of the players, None (0) for a player
\* without it
game_armies(g) == {g.army[p] : p \in game_players(g)}

\* Game.add_result
add_result(g, army, score) ==
    IF army \notin game_armies(g)
    THEN [g EXCEPT !.error = "AssertionError"]
    ELSE [g EXCEPT !.results[army] = Append(@, score), !.error = "None"]

\* the loop of get_army_result: score = max(score, result[2])
RECURSIVE HighestFrom(_, _)
HighestFrom(score, results) ==
    IF results = <<>> THEN score
    ELSE HighestFrom(IF Head(results) > score THEN Head(results) ELSE score,
                     Tail(results))

\* Game.get_army_result: _results has a key for the armies a result was
\* reported for, and only for them
get_army_result(g, army) ==
    IF army \notin Armies \/ g.results[army] = <<>>
    THEN [raised |-> TRUE, score |-> 0]
    ELSE [raised |-> FALSE, score |-> HighestFrom(0, g.results[army])]

\* Game.persist_results: one row for each of Game.players, none when
\* get_army_result raises
persist_results(g) ==
    IF \E p \in game_players(g) : get_army_result(g, g.army[p]).raised
    THEN [g EXCEPT !.error = "KeyError"]
    ELSE [g EXCEPT !.persisted = game_players(g)]

\* Game.on_game_end
on_game_end(g) ==
    persist_results([g EXCEPT !.state = "ENDED", !.ends = @ + 1])

\* mutant: a connection is added whatever the state of the game
add_game_connection_any_state(g, c, connection) ==
    IF connection.state # "CONNECTED_TO_HOST"
    THEN [g EXCEPT !.error = "GameError"]
    ELSE [g EXCEPT !.connections[connection.player] = c,
                   !.added = @ \cup {c},
                   !.error = "None"]

\* Game.add_game_connection with the connection c
add_game_connection(g, c, connection) ==
    IF connection.state # "CONNECTED_TO_HOST"
    THEN [g EXCEPT !.error = "GameError"]
    ELSE IF g.state # "LOBBY"
    THEN [g EXCEPT !.error = "GameError"]
    ELSE [g EXCEPT !.connections[connection.player] = c,
                   !.added = @ \cup {c},
                   !.error = "None"]

\* Game.remove_game_connection with the connection c
remove_game_connection(g, c, connection) ==
    IF ~(\E p \in GamePlayers : g.connections[p] = c)
    THEN [g EXCEPT !.error = "AssertionError"]
    ELSE LET removed == [g EXCEPT !.connections[connection.player] = 0,
                                  !.added = @ \ {c},
                                  !.error = "None"]
         IN  IF \A p \in GamePlayers : removed.connections[p] = 0
             THEN on_game_end(removed)
             ELSE removed

\* Game.launch
launch(g) ==
    IF g.state # "LOBBY"
    THEN [g EXCEPT !.error = "AssertionError"]
    ELSE [g EXCEPT !.players = game_players(g),
                   !.state = "LIVE",
                   !.launched = TRUE,
                   !.at_launch = game_players(g),
                   !.error = "None"]

GameAside ==
    UNCHANGED <<searches, informed_players, player_state, search_obj,
                cancelled, matched, queue_set, task_pc, pop_pc, possible_games,
                matches_tmm, matches_1v1, start_game_tasks, cancel_requested,
                rating_noticed, noticed_since_lost, last_refused, update_vars,
                fetch_vars, filter_vars, loop_vars, launch_vars, slot_vars>>

\* the host's game reports the lobby: the state of the game is set to LOBBY
SetStateLobby ==
    /\ the_game.state = "INITIALIZING"
    /\ the_game' = [the_game EXCEPT !.state = "LOBBY"]
    /\ UNCHANGED game_connections
    /\ GameAside

\* a game connection changes its state
SetConnectionState(c, state) ==
    /\ game_connections[c].state # state
    /\ game_connections' = [game_connections EXCEPT ![c].state = state]
    /\ UNCHANGED the_game
    /\ GameAside

AddGameConnection(c) ==
    /\ the_game' = add_game_connection(the_game, c, game_connections[c])
    /\ UNCHANGED game_connections
    /\ GameAside

RemoveGameConnection(c) ==
    /\ the_game' = remove_game_connection(the_game, c, game_connections[c])
    /\ UNCHANGED game_connections
    /\ GameAside

Launch ==
    /\ the_game' = launch(the_game)
    /\ UNCHANGED game_connections
    /\ GameAside

AddResult(army, score) ==
    /\ Len(the_game.results[army]) < MaxResults
    /\ the_game' = add_result(the_game, army, score)
    /\ UNCHANGED game_connections
    /\ GameAside

GetArmyResult(army) ==
    /\ the_game' = [the_game EXCEPT !.army_result = get_army_result(the_game, army)]
    /\ UNCHANGED game_connections
    /\ GameAside

\* a new game and connections of any players, none connected to the host
InitGame ==
    /\ searches = [p \in Players |-> [q \in QueueNames |-> NoSearch]]
    /\ informed_players = {}
    /\ player_state = [p \in Players |-> IDLE]
    /\ search_obj = <<>>
    /\ cancelled = {}
    /\ matched = {}
    /\ queue_set = [q \in QueueNames |-> {}]
    /\ task_pc = [s \in SearchIds |-> "none"]
    /\ pop_pc = "idle"
    /\ possible_games = {}
    /\ matches_tmm = {}
    /\ matches_1v1 = {}
    /\ start_game_tasks = <<>>
    /\ cancel_requested = {}
    /\ rating_noticed = {}
    /\ noticed_since_lost = {}
    /\ last_refused = FALSE
    /\ is_running = TRUE
    /\ pop_snapshot = 0
    /\ raises = 0
    /\ handed = [done |-> FALSE, matches |-> {}]
    /\ InitQueues
    /\ rows = <<>>
    /\ db_queues = [done |-> FALSE, queues |-> <<>>]
    /\ lobby_connection = {}
    /\ launch_pc = "none"
    /\ launch_in = NoLaunch
    /\ ladder_game = NoGame
    /\ launch_error = NoError
    /\ launch_msgs = <<>>
    /\ metrics_matches = [o \in MatchLaunch |-> 0]
    /\ violations = <<>>
    /\ slot_in = NoSlots
    /\ player_options = [done |-> FALSE, options |-> [p \in Players |-> NoOptions]]
    /\ the_game = NewGame
    /\ game_connections \in [Connections -> [player : GamePlayers, state : {"INITIALIZING"}]]

NextGame ==
    \/ SetStateLobby
    \/ \E c \in Connections : \E state \in GameConnectionState : SetConnectionState(c, state)
    \/ \E c \in Connections : AddGameConnection(c)
    \/ \E c \in Connections : RemoveGameConnection(c)
    \/ Launch

SpecGame == InitGame /\ [][NextGame]_vars

\* a live game of any players with any armies, no result reported yet
InitResults ==
    /\ searches = [p \in Players |-> [q \in QueueNames |-> NoSearch]]
    /\ informed_players = {}
    /\ player_state = [p \in Players |-> IDLE]
    /\ search_obj = <<>>
    /\ cancelled = {}
    /\ matched = {}
    /\ queue_set = [q \in QueueNames |-> {}]
    /\ task_pc = [s \in SearchIds |-> "none"]
    /\ pop_pc = "idle"
    /\ possible_games = {}
    /\ matches_tmm = {}
    /\ matches_1v1 = {}
    /\ start_game_tasks = <<>>
    /\ cancel_requested = {}
    /\ rating_noticed = {}
    /\ noticed_since_lost = {}
    /\ last_refused = FALSE
    /\ is_running = TRUE
    /\ pop_snapshot = 0
    /\ raises = 0
    /\ handed = [done |-> FALSE, matches |-> {}]
    /\ InitQueues
    /\ rows = <<>>
    /\ db_queues = [done |-> FALSE, queues |-> <<>>]
    /\ lobby_connection = {}
    /\ launch_pc = "none"
    /\ launch_in = NoLaunch
    /\ ladder_game = NoGame
    /\ launch_error = NoError
    /\ launch_msgs = <<>>
    /\ metrics_matches = [o \in MatchLaunch |-> 0]
    /\ violations = <<>>
    /\ slot_in = NoSlots
    /\ player_options = [done |-> FALSE, options |-> [p \in Players |-> NoOptions]]
    /\ the_game \in {[NewGame EXCEPT !.state = "LIVE", !.players = ps, !.army = army,
                                      !.launched = TRUE, !.at_launch = ps] :
                      ps \in SUBSET GamePlayers, army \in [GamePlayers -> {0} \cup Armies]}
    /\ game_connections = NoConnections

NextResults ==
    \/ \E army \in Armies : \E score \in Scores : AddResult(army, score)
    \/ \E army \in Armies : GetArmyResult(army)

SpecResults == InitResults /\ [][NextResults]_vars

\* ----------------------------------------------------------------- claims
Alive == {s \in DOMAIN search_obj : search_obj[s].players # <<>>}

Members(s) == Range(search_obj[s].players)

StopMsg(player, queue_name) ==
    Msg(player, "search_info", queue_name, "stop", "", NoProgress)

Sent(msgs, m) == \E k \in 1..Len(msgs) : msgs[k] = m

\* the step creates a Search of players for queue q
Created(players, q) ==
    /\ Len(search_obj') = Len(search_obj) + 1
    /\ search_obj'[Len(search_obj')] = [players |-> players, queue |-> q]

\* the Searches for queue q with player p that are neither cancelled nor matched
ActiveFor(p, q) ==
    {s \in Alive : /\ p \in Members(s)
                   /\ search_obj[s].queue = q
                   /\ s \notin cancelled
                   /\ s \notin matched}

C1_Replaces ==
    \A q \in QueueNames : \A players \in Parties(q) :
        (Created(players, q) /\ StartSearch(players, q)) =>
            LET msgs == start_search(View, players, q, {}, Len(search_obj) + 1).msgs
            IN  /\ \A p \in Range(players) :
                      searches[p][q] # NoSearch =>
                          /\ searches[p][q] \in cancelled'
                          /\ \A x \in Players : searches'[x][q] # searches[p][q]
                          /\ \A x \in Members(searches[p][q]) : Sent(msgs, StopMsg(x, q))
                /\ \A i, j \in 1..Len(msgs) :
                      msgs[i].state = "stop" /\ msgs[j].state = "start" => i < j

\* C1: every player has at most one live Search per queue name, and a
\* start_search that finds a player of the request registered for the queue
\* cancels that Search and removes it from the registry of all its players
\* before it registers the new one
C1_OneSearchPerPlayerAndQueue ==
    /\ [](\A p \in Players, q \in QueueNames : Cardinality(ActiveFor(p, q)) <= 1)
    /\ [][C1_Replaces]_vars

\* C1 witness: a party search was replaced by a search of one of its
\* players with somebody else; the partner left behind is out of the registry
C1_Witness ==
    \E old \in Alive, new \in Alive :
        /\ old < new
        /\ old \in cancelled
        /\ search_obj[old].queue = search_obj[new].queue
        /\ Members(old) \cap Members(new) # {}
        /\ Members(old) \ Members(new) # {}
        /\ \A p \in Members(new) : searches[p][search_obj[new].queue] = new
        /\ \A p \in Members(old) \ Members(new) : searches[p][search_obj[old].queue] = NoSearch

RegisteredIn(q) == {searches[p][q] : p \in Players} \ {NoSearch}

\* the Searches queue q holds that are neither cancelled nor matched
ActiveIn(q) == {s \in queue_set[q] : s \notin cancelled /\ s \notin matched}

\* C2 as stated: after every call the active Searches a queue holds are the
\* Searches registered under its name
C2_Original == \A q \in QueueNames : ActiveIn(q) = RegisteredIn(q)

\* C2 amended: the active Searches a queue holds are the Searches registered
\* under its name whose queue.search task, spawned by start_search, has
\* started; a Search cancelled before its task ran never becomes active
C2_QueueHoldsRegistered ==
    \A q \in QueueNames :
        ActiveIn(q) = {s \in RegisteredIn(q) : task_pc[s] # "created"}

\* C2 witness: a Search was cancelled before its queue.search task ran,
\* while the queue holds another, registered Search
C2_Witness ==
    \E s \in Alive \cap cancel_requested :
        /\ task_pc[s] = "created"
        /\ s \in cancelled
        /\ \E o \in ActiveIn(search_obj[s].queue) : o \in RegisteredIn(search_obj[s].queue)

\* C3: no player appears in two of the matches that one pop iteration
\* hands to _found_matches
C3_NoPlayerInTwoDispatched ==
    [][(pop_pc' = "idle" /\ PopDispatch) =>
        \A m1 \in Dispatched, m2 \in Dispatched :
            m1 # m2 => MatchPlayers_(m1) \cap MatchPlayers_(m2) = {}]_vars

TimeoutMsgs(player, queue_name) ==
    <<Msg(player, "search_timeout", "", "", "", NoProgress),
      StopMsg(player, queue_name),
      Msg(player, "notice", "", "", "timed_out", NoProgress)>>

\* what start_search(players, q) does when the violation service reports
\* timeouts for some of the players
C4_Refused(players, q, timeouts) ==
    LET r == start_search(View, players, q, timeouts, Len(search_obj) + 1)
    IN  /\ r.searches = searches
        /\ r.state = player_state
        /\ r.cancelled = cancelled
        /\ r.informed = informed_players
        /\ Len(r.msgs) = 3 * Len(players)
        /\ \A i \in 1..Len(players) :
              SubSeq(r.msgs, 3 * i - 2, 3 * i) = TimeoutMsgs(players[i], q)

\* C4: a start_search for which the violation service reports a timeout
\* creates and enqueues no Search, leaves the registry and the players'
\* states alone, and writes to every player of the request search_timeout,
\* search_info stop for the queue, and a notice, in this order
C4_TimedOutSearchRefused ==
    /\ [](\A q \in QueueNames : \A players \in Parties(q) :
            \A timeouts \in (SUBSET Range(players)) \ {{}} :
                C4_Refused(players, q, timeouts))
    /\ [][last_refused' =>
            UNCHANGED <<searches, player_state, search_obj, queue_set, task_pc,
                        cancelled, informed_players>>]_vars

\* C4 witness: a party of two, one of them already searching, was refused
C4_Witness ==
    /\ last_refused
    /\ \E s \in Alive : Len(search_obj[s].players) = 2 /\ s \notin cancelled
    /\ \E p \in Players : player_state[p] = SEARCHING_LADDER

CallPlayers(call) == TeamPlayers(call.match.team1) \o TeamPlayers(call.match.team2)

C5_AfterMatch ==
    (pop_pc' = "idle" /\ PopDispatch) =>
        LET d == Dispatch
        IN  /\ Len(d.sv.games) = Len(d.calls)
            /\ \A i \in 1..Len(d.calls) :
                 LET call == d.calls[i]
                     q == call.match.queue
                 IN  /\ d.sv.games[i] = [team1 |-> TeamPlayers(call.match.team1),
                                         team2 |-> TeamPlayers(call.match.team2),
                                         queue |-> q]
                     /\ \A p \in Range(CallPlayers(call)) :
                          /\ player_state'[p] = STARTING_AUTOMATCH
                          /\ \E k \in call.from..call.to :
                               d.sv.msgs[k] = Msg(p, "match_found", q, "", "", NoProgress)
                          /\ \A o \in QueueNames : searches'[p][o] = NoSearch
                          /\ \A o \in QueueNames \ {q} :
                               searches[p][o] # NoSearch =>
                                   /\ searches[p][o] \in d.sv.cancelled
                                   /\ \A x \in Members(searches[p][o]) :
                                        Sent(d.sv.msgs, StopMsg(x, o))
            /\ start_game_tasks' = start_game_tasks \o d.sv.games

\* C5: after on_match_found every player of the two teams is starting, was
\* sent match_found for the queue and has no registered Search; their
\* Searches in other queues are cancelled with a stop notice to all members;
\* and one start_game task per match is scheduled
C5_MatchFoundEffects == [][C5_AfterMatch]_vars

\* C5 witness: a game was scheduled for a player whose party search in the
\* other queue is cancelled, the partner left behind is idle
C5_Witness ==
    /\ start_game_tasks # <<>>
    /\ \E s \in Alive \cap cancelled :
         LET game == start_game_tasks[Len(start_game_tasks)]
             playing == Range(game.team1) \cup Range(game.team2)
         IN  /\ search_obj[s].queue # game.queue
             /\ Members(s) \cap playing # {}
             /\ \E x \in Members(s) \ playing : player_state[x] = IDLE
             /\ \A p \in playing : player_state[p] = STARTING_AUTOMATCH

C6_WinnerNotCancelled ==
    (pop_pc' = "idle" /\ PopDispatch) =>
        LET d == Dispatch
        IN  \A i \in 1..Len(d.calls) :
              LET call == d.calls[i]
              IN  /\ MatchSearches(call.match) \cap d.sv.cancelled = {}
                  /\ \A k \in call.from..call.to :
                       ~(/\ d.sv.msgs[k].command = "search_info"
                         /\ d.sv.msgs[k].state = "stop"
                         /\ d.sv.msgs[k].queue_name = call.match.queue)

\* C6: on_match_found for queue Q writes no search_info stop for Q, and the
\* winning Searches leave the registry without Search.cancel()
C6_NoStopForWinningQueue == [][C6_WinnerNotCancelled]_vars

\* C6 witness: matched Searches, none of them cancelled, their players
\* starting and out of the registry
C6_Witness ==
    /\ matched \cap Alive # {}
    /\ \A s \in matched \cap Alive :
         /\ s \notin cancelled
         /\ \A p \in Members(s) :
              /\ player_state[p] = STARTING_AUTOMATCH
              /\ \A q \in QueueNames : searches[p][q] = NoSearch

\* the Searches a cancel_search(p, q) finds registered
CancelHits(p, q) ==
    {searches[p][x] : x \in (IF q = "None" THEN QueueNames ELSE {q})} \ {NoSearch}

\* C7: cancel_search removes a registered Search from the registry of all
\* its players, cancels it, writes each of them search_info stop, and resets
\* to idle exactly those who are left without a Search while searching;
\* without a queue name it does so for every queue of the initiator
C7_CancelSearchEffects ==
    \A p \in Players : \A q \in QueueNames \cup {"None"} :
        CancelHits(p, q) # {} =>
            LET r == cancel_search(View, p, q)
                hits == CancelHits(p, q)
                told == UNION {Members(s) : s \in hits}
            IN  /\ \A s \in hits :
                     /\ s \in r.cancelled
                     /\ \A x \in Members(s) :
                          /\ r.searches[x][search_obj[s].queue] = NoSearch
                          /\ Sent(r.msgs, StopMsg(x, search_obj[s].queue))
                /\ \A x \in Players :
                     r.state[x] =
                        IF /\ x \in told
                           /\ ~HasSearches(r, x)
                           /\ player_state[x] = SEARCHING_LADDER
                        THEN IDLE
                        ELSE player_state[x]
                /\ q = "None" => ~HasSearches(r, p)

\* C7 witness: a party search is cancelled; one of its players is idle, the
\* other still searches in the other queue
C7_Witness ==
    \E s \in Alive \cap cancel_requested :
        /\ s \in cancelled
        /\ \E x \in Members(s), y \in Members(s) :
             /\ player_state[x] = IDLE
             /\ \A o \in QueueNames : searches[x][o] = NoSearch
             /\ player_state[y] = SEARCHING_LADDER
             /\ \E o \in QueueNames : searches[y][o] # NoSearch

\* C8: on_connection_lost cancels every Search of the connection's player,
\* for the partners too, drops the player's registry entry and forgets the
\* informed flag; without a player it changes nothing
C8_ConnectionLostEffects ==
    /\ on_connection_lost(View, NoPlayer) = View
    /\ \A p \in Players :
         LET r == on_connection_lost(View, p)
         IN  /\ \A s \in CancelHits(p, "None") :
                  /\ s \in r.cancelled
                  /\ \A x \in Members(s) :
                       /\ r.searches[x][search_obj[s].queue] = NoSearch
                       /\ Sent(r.msgs, StopMsg(x, search_obj[s].queue))
             /\ ~HasSearches(r, p)
             /\ p \notin r.informed

\* C8 witness: a player who had been sent the rating notice is forgotten
\* again, and the party search with the partner is cancelled
C8_Witness ==
    \E p \in rating_noticed \ informed_players :
        \E s \in Alive \cap cancelled :
            /\ p \in Members(s)
            /\ Len(search_obj[s].players) = 2
            /\ \A x \in Members(s) : searches[x][search_obj[s].queue] = NoSearch

NoticedBy(players, q) ==
    RatingNoticed(start_search(View, players, q, {}, Len(search_obj) + 1).msgs)

\* C10 as stated: a player who was sent a rating-progress notice is never
\* sent one again
C10_Original ==
    [][\A q \in QueueNames : \A players \in Parties(q) :
          (Created(players, q) /\ StartSearch(players, q)) =>
              NoticedBy(players, q) \cap rating_noticed = {}]_vars

\* C10 amended: a player is sent a rating-progress notice at most once
\* between two losses of the player's connection (on_connection_lost
\* forgets the flag): no notice to a player who was sent one since then,
\* and at most one notice in a start_search
C10_OncePerConnection ==
    [][\A q \in QueueNames : \A players \in Parties(q) :
          (Created(players, q) /\ StartSearch(players, q)) =>
              /\ NoticedBy(players, q) \cap noticed_since_lost = {}
              /\ \A p \in Players :
                   NoticeCount(start_search(View, players, q, {},
                                            Len(search_obj) + 1).msgs, p) <= 1]_vars

\* C10 witness: a player with a rating notice since the last connection
\* loss is registered in both queues
C10_Witness ==
    \E p \in noticed_since_lost :
        \A q \in QueueNames : searches[p][q] # NoSearch

\* the rating notices with this text that msgs holds for player p
NoticesTo(msgs, p, text) ==
    {i \in 1..Len(msgs) : /\ msgs[i].player = p
                          /\ msgs[i].command = "notice"
                          /\ msgs[i].text = text}

\* what a start_search(players, q) that no timeout refuses writes to p, a
\* player of the request who is not marked as informed
C11_FirstNotice(players, q, p) ==
    LET r == start_search(View, players, q, {}, Len(search_obj) + 1)
        deviation == Deviation(p, queue_rating_type(q))
        welcome == NoticesTo(r.msgs, p, "welcome")
        calibrating == NoticesTo(r.msgs, p, "calibrating")
    IN  /\ Cardinality(welcome) = IF deviation > 490 THEN 1 ELSE 0
        /\ Cardinality(calibrating) =
              IF deviation > 250 /\ deviation <= 490 THEN 1 ELSE 0
        \* X is (500 - deviation) / 2.5, shown without decimals
        /\ \A i \in calibrating :
              /\ 10 * r.msgs[i].progress - 4 * (500 - deviation) <= 5
              /\ 4 * (500 - deviation) - 10 * r.msgs[i].progress <= 5
        /\ p \in r.informed

\* C11: the first start_search of a player that is not refused for timeouts
\* writes the welcome notice iff the deviation is above 490, the calibration
\* notice with X = (500 - deviation) / 2.5 iff it is above 250 and at most
\* 490, no rating notice otherwise, and marks the player as informed
C11_RatingNoticeByDeviation ==
    \A q \in QueueNames : \A players \in Parties(q) :
        \A p \in Range(players) \ informed_players :
            C11_FirstNotice(players, q, p)

\* C11 witness: the players of the three branches have all searched; the
\* uncalibrated and the calibrating one were sent a notice, the third not
C11_Witness ==
    /\ {1, 2, 3} \subseteq informed_players
    /\ {1, 2} \subseteq rating_noticed
    /\ 3 \notin rating_noticed

\* C12: when update_data has removed a queue that the store no longer lists,
\* no player has a Search registered under that queue, and no player is left
\* searching because of it
C12_RemovedQueueSearchesCancelled ==
    \A q \in QueueNames :
        queues[q] = NoQueue =>
            \A p \in Players :
                /\ searches[p][q] = NoSearch
                /\ player_state[p] = SEARCHING_LADDER =>
                      \E o \in QueueNames : queues[o] # NoQueue /\ ActiveFor(p, o)

\* the queues after a completed update_data that the store answered infos
UpdatedQueues(infos) == update_data(queues, queue_objects, infos, [kind |-> "none", queue |-> "None"]).queues

\* the info of queue q in the answer infos
InfoOf(infos, q) == infos[IndexOf(infos, q, 1)]

C14_FailedUpdateKeepsQueues ==
    \A infos \in FetchResults : \A fault \in Faults :
        LET r == update_data(queues, queue_objects, infos, fault)
        IN  r.raised => r.queues = queues

\* the (map_pool, min_rating, max_rating) rows of queue q in the store's answer
PoolsOf(result, q) ==
    LET own == SelectSeq(result, LAMBDA row : row.technical_name = q)
    IN  [i \in 1..Len(own) |-> own[i].map_pool_id]

\* the queues with a row whose processing raises
FailedQueues(result) ==
    {result[i].technical_name : i \in {j \in 1..Len(result) : result[j].bad}}

\* C15: fetch_matchmaker_queues returns every queue that has rows and no
\* failing row, once, with all of its map pool rows in order; a queue with a
\* failing row is not returned, whatever rows follow it
C15_OnlyFailedQueueDropped ==
    db_queues.done =>
        LET named == {rows[i].technical_name : i \in 1..Len(rows)}
            infos == db_queues.queues
        IN  /\ InfoNames(infos) = named \ FailedQueues(rows)
            /\ Len(infos) = Cardinality(InfoNames(infos))
            /\ \A q \in InfoNames(infos) :
                  InfoOf(infos, q).map_pools = PoolsOf(rows, q)

\* a row of one queue failed, a later row of the same queue is good, and
\* another queue is returned
C15_Witness ==
    /\ db_queues.done
    /\ \E i \in 1..Len(rows) : \E j \in 1..Len(rows) :
          /\ i < j
          /\ rows[i].bad
          /\ ~rows[j].bad
          /\ rows[j].technical_name = rows[i].technical_name
    /\ db_queues.queues # <<>>

\* a 1v1 candidate that has a Search in a picked team match
SharesWithPicked(m) ==
    \E t \in matches_tmm : MatchSearches(m) \cap MatchSearches(t) # {}

\* C16: the list _add_matches_from1v1 hands on holds every picked team
\* match, whatever the 1v1 candidates are, and no 1v1 candidate that shares
\* a Search with a picked team match
C16_TeamMatchesKept ==
    handed.done =>
        /\ matches_tmm \subseteq handed.matches
        /\ \A m \in matches_1v1 : SharesWithPicked(m) => m \notin handed.matches

\* team matches were picked, one 1v1 candidate shares a Search with them
\* and another one was added to the list
C16_Witness ==
    /\ handed.done
    /\ matches_tmm # {}
    /\ \E m \in matches_1v1 : SharesWithPicked(m)
    /\ \E m \in matches_1v1 : m \in handed.matches

\* the Searches the running iteration has matched so far
IterationSearches ==
    UNION {MatchSearches(m) : m \in possible_games \cup matches_tmm \cup matches_1v1}

\* C17: the matches of a running _queue_pop_iteration are made only of
\* Searches that existed when the iteration started
C17_IterationUsesSnapshot ==
    pop_pc \in {"find_matches", "find_matches1v1"} =>
        IterationSearches \subseteq 1..pop_snapshot

\* C18: once shutdown was called, the pop loop starts no further
\* _queue_pop_iteration, also when it was waiting in timer.next_pop
C18_NoIterationAfterShutdown ==
    [][~is_running => ~(pop_pc = "idle" /\ pop_pc' = "find_matches")]_vars

\* C19: an exception in the pop loop leads to the sleep and not out of the
\* loop; after the sleep the loop waits for the next pop while the service
\* is running; the loop ends only by cancellation or with _is_running false
C19_LoopSurvivesException ==
    [][/\ PopRaises => pop_pc' = "sleep"
       /\ (pop_pc = "sleep" /\ pop_pc' # "sleep" /\ is_running) =>
             pop_pc' \in {"idle", "cancelled"}
       /\ (pop_pc # "stopped" /\ pop_pc' = "stopped") => ~is_running
       /\ (pop_pc # "cancelled" /\ pop_pc' = "cancelled") =>
             ENABLED PopTaskCancelled]_vars

\* after two exceptions the loop runs a further pop iteration
C19_Witness ==
    /\ raises = MaxRaises
    /\ is_running
    /\ pop_pc = "find_matches1v1"
    /\ matches_1v1 # {}

\* the launch_game messages written so far
LaunchGames(msgs) == SelectSeq(msgs, LAMBDA m : m.command = "launch_game")

\* C20: when the host has no lobby connection as launch_match starts, the
\* launch fails there; then no launch_game was written to anybody, the error
\* is NotConnectedError([host]), only matches{queue, TIMED_OUT} was
\* incremented, and when the handler is through exactly the host is
\* registered as violator
C20_HostNotConnected ==
    [][/\ (/\ launch_pc = "get_game_history"
           /\ ladder_game'.id # 0
           /\ Host(launch_in) \notin lobby_connection) =>
              launch_error'.at = "host_connection"
       /\ launch_error'.at = "host_connection" =>
              /\ LaunchGames(launch_msgs') = <<>>
              /\ launch_error'.kind = "NotConnectedError"
              /\ launch_error'.players = <<Host(launch_in)>>
              /\ metrics_matches' = [o \in MatchLaunch |->
                                       IF o = "TIMED_OUT" THEN 1 ELSE 0]
              /\ launch_pc' \in {"on_game_finish", "done"}
              /\ violations' = IF launch_pc' = "done"
                               THEN << <<Host(launch_in)>> >> ELSE <<>>]_vars

\* a 2v2 launch that has failed on the host's connection while a guest had
\* no connection either
C20_Witness ==
    /\ launch_pc = "done"
    /\ launch_error.at = "host_connection"
    /\ Len(all_players(launch_in)) = 4
    /\ \E g \in Range(all_guests(launch_in)) : g \notin lobby_connection
    /\ violations = << <<Host(launch_in)>> >>

\* the match_cancelled messages written so far
Cancels(msgs) == SelectSeq(msgs, LAMBDA m : m.command = "match_cancelled")

\* the players a list of messages was written to, in order
Receivers(msgs) == [i \in 1..Len(msgs) |-> msgs[i].player]

\* as the claim has it: after a launch that failed on the host's connection,
\* match_cancelled carries no game id
C21_Original ==
    (launch_pc = "done" /\ launch_error.at = "host_connection") =>
        \A i \in 1..Len(launch_msgs) :
            launch_msgs[i].command = "match_cancelled" => launch_msgs[i].game_id = 0

\* C21: after a launch that failed on the host's connection, every player
\* of both teams was sent match_cancelled with the id of the game that
\* create_game had made before launch_match ran; match_cancelled carries no
\* game id exactly when the launch failed before a game was created
C21_CancelledCarriesGameId ==
    launch_pc = "done" /\ launch_error # NoError =>
        /\ Receivers(Cancels(launch_msgs)) = all_players(launch_in)
        /\ \A i \in 1..Len(launch_msgs) :
              launch_msgs[i].command = "match_cancelled" =>
                  launch_msgs[i].game_id = ladder_game.id
        /\ launch_error.at = "host_connection" => ladder_game.id # 0
        /\ ladder_game.id = 0 <=>
              launch_error.at \in {"get_game_history", "get_map_pool_for_rating"}

\* a 2v2 launch has failed on the host's connection and all four players
\* were told
C21_Witness ==
    /\ launch_pc = "done"
    /\ launch_error.at = "host_connection"
    /\ Len(Cancels(launch_msgs)) = 4

\* the launch_game messages written to guests
GuestLaunches(msgs) ==
    SelectSeq(msgs, LAMBDA m : m.command = "launch_game" /\ ~m.is_host)

\* the launch from the return of wait_hosted to its next await
AfterWaitHosted(outcome, who) ==
    Try(wait_hosted(LaunchView, launch_in, outcome, who), launch_in)

\* the launch from the return of wait_launched to its next await
AfterWaitLaunched(outcome, who) ==
    Try(wait_launched(LaunchView, launch_in, outcome, who), launch_in)

\* the calls of register_violations once on_game_finish has returned
ViolationsAfter(r) ==
    IF r.pc = "on_game_finish" THEN cancel_match(r, launch_in).violations
    ELSE r.violations

\* every guest has a lobby connection
GuestsConnected == Range(all_guests(launch_in)) \subseteq lobby_connection

\* as the claim has it: whenever wait_hosted times out, the launch fails
\* with NotConnectedError([host]), the guests are still sent launch_game,
\* and the host alone is registered as violator
C22_Original ==
    launch_pc = "wait_hosted" =>
        LET r == AfterWaitHosted("timeout", Host(launch_in))
        IN  /\ r.error.kind = "NotConnectedError"
            /\ r.error.players = <<Host(launch_in)>>
            /\ Receivers(GuestLaunches(r.msgs)) = all_guests(launch_in)
            /\ ViolationsAfter(r) = << <<Host(launch_in)>> >>

\* C23: when a guest has no lobby connection as wait_hosted is over, however
\* it ended, no guest is sent launch_game and the launch fails with
\* NotConnectedError naming the guests without connection, all of them and
\* nobody else
C23_NilGuestsNamed ==
    (/\ launch_pc = "wait_hosted"
     /\ Range(all_guests(launch_in)) \ lobby_connection # {}) =>
        \A outcome \in {"returns", "timeout", "closed"} :
          \A who \in Range(all_players(launch_in)) :
            LET r == AfterWaitHosted(outcome, who)
            IN  /\ GuestLaunches(r.msgs) = <<>>
                /\ r.error.kind = "NotConnectedError"
                /\ r.error.at = "guest_connections"
                /\ Range(r.error.players) = Range(all_guests(launch_in)) \ lobby_connection
                /\ Len(r.error.players) = Cardinality(Range(r.error.players))

\* a 2v2 launch has failed on its guests: some had no connection, one had
C23_Witness ==
    /\ launch_pc = "done"
    /\ launch_error.at = "guest_connections"
    /\ Len(launch_error.players) = 2
    /\ Len(all_guests(launch_in)) = 3
    /\ violations = <<launch_error.players>>

\* C24: when wait_launched times out, the launch fails with
\* NotConnectedError naming the guests that are not connected to the game,
\* never the host; TIMED_OUT is counted, and the named guests, if any, are
\* registered as violators
C24_LaunchTimeoutNamesGuests ==
    launch_pc = "wait_launched" =>
        \A who \in Range(all_players(launch_in)) :
            LET r == AfterWaitLaunched("timeout", who)
            IN  /\ r.error.kind = "NotConnectedError"
                /\ Range(r.error.players)
                      = Range(all_guests(launch_in)) \ ladder_game.connected
                /\ Len(r.error.players) = Cardinality(Range(r.error.players))
                /\ Host(launch_in) \notin Range(r.error.players)
                /\ r.metrics = [metrics_matches EXCEPT !["TIMED_OUT"] = @ + 1]
                /\ ViolationsAfter(r) = IF r.error.players = <<>> THEN <<>>
                                        ELSE <<r.error.players>>

\* a 2v2 launch has timed out in wait_launched while neither the host nor
\* two of the guests were connected to the game
C24_Witness ==
    /\ launch_pc = "done"
    /\ launch_error.at = "wait_launched"
    /\ launch_error.kind = "NotConnectedError"
    /\ Host(launch_in) \notin ladder_game.connected
    /\ Len(launch_error.players) = 2
    /\ violations = <<launch_error.players>>

\* C22: when wait_hosted times out while every guest has a lobby
\* connection, the launch fails with NotConnectedError([host]), every guest
\* is still sent launch_game with is_host false, TIMED_OUT is counted and
\* the host alone is registered as violator
C22_HostedTimeoutNamesHost ==
    (launch_pc = "wait_hosted" /\ GuestsConnected) =>
        LET r == AfterWaitHosted("timeout", Host(launch_in))
        IN  /\ r.error.kind = "NotConnectedError"
            /\ r.error.at = "wait_hosted"
            /\ r.error.players = <<Host(launch_in)>>
            /\ Receivers(GuestLaunches(r.msgs)) = all_guests(launch_in)
            /\ r.metrics = [metrics_matches EXCEPT !["TIMED_OUT"] = @ + 1]
            /\ ViolationsAfter(r) = << <<Host(launch_in)>> >>

\* a 2v2 launch has timed out in wait_hosted after its three guests were
\* sent launch_game
C22_Witness ==
    /\ launch_pc = "done"
    /\ launch_error.at = "wait_hosted"
    /\ launch_error.kind = "NotConnectedError"
    /\ Len(GuestLaunches(launch_msgs)) = 3
    /\ violations = << <<Host(launch_in)>> >>

\* as the claim has it: a GameClosedError of wait_hosted or wait_launched
\* ends the launch as ABORTED_BY_PLAYER with that player as the only
\* violator, whatever connections the guests have
C27_Original ==
    \A who \in Range(all_players(launch_in)) :
        /\ launch_pc = "wait_hosted" =>
              LET r == AfterWaitHosted("closed", who)
              IN  /\ r.metrics = [metrics_matches EXCEPT !["ABORTED_BY_PLAYER"] = @ + 1]
                  /\ ViolationsAfter(r) = << <<who>> >>
        /\ launch_pc = "wait_launched" =>
              LET r == AfterWaitLaunched("closed", who)
              IN  /\ r.metrics = [metrics_matches EXCEPT !["ABORTED_BY_PLAYER"] = @ + 1]
                  /\ ViolationsAfter(r) = << <<who>> >>

\* C27: a GameClosedError of wait_launched, whatever connections the guests
\* have, or of wait_hosted while every guest has a lobby connection, ends
\* the launch as ABORTED_BY_PLAYER with that player as the only violator;
\* a GameClosedError of wait_hosted while a guest has no connection is
\* replaced by the NotConnectedError of the guests and counted as TIMED_OUT
C27_ClosedGameAborts ==
    \A who \in Range(all_players(launch_in)) :
        /\ (launch_pc = "wait_hosted" /\ GuestsConnected) =>
              LET r == AfterWaitHosted("closed", who)
              IN  /\ r.error = [kind |-> "GameClosedError", players |-> <<who>>,
                                at |-> "wait_hosted"]
                  /\ r.metrics = [metrics_matches EXCEPT !["ABORTED_BY_PLAYER"] = @ + 1]
                  /\ ViolationsAfter(r) = << <<who>> >>
        /\ (launch_pc = "wait_hosted" /\ ~GuestsConnected) =>
              LET r == AfterWaitHosted("closed", who)
              IN  /\ r.error.kind = "NotConnectedError"
                  /\ r.metrics = [metrics_matches EXCEPT !["TIMED_OUT"] = @ + 1]
                  /\ ViolationsAfter(r) = <<r.error.players>>
        /\ launch_pc = "wait_launched" =>
              LET r == AfterWaitLaunched("closed", who)
              IN  /\ r.error = [kind |-> "GameClosedError", players |-> <<who>>,
                                at |-> "wait_launched"]
                  /\ r.metrics = [metrics_matches EXCEPT !["ABORTED_BY_PLAYER"] = @ + 1]
                  /\ ViolationsAfter(r) = << <<who>> >>

\* a guest has closed the game during wait_launched while another guest had
\* lost the lobby connection, and is the only violator
C27_Witness ==
    /\ launch_pc = "done"
    /\ launch_error.kind = "GameClosedError"
    /\ launch_error.at = "wait_launched"
    /\ ~GuestsConnected
    /\ metrics_matches["ABORTED_BY_PLAYER"] = 1
    /\ violations = <<launch_error.players>>

\* the run of _start_game is over
LaunchOver == launch_pc \in {"done", "crashed"}

\* C25: when a run of _start_game ends in a failure, on_game_finish was
\* invoked iff a game was created, every player of both teams was sent
\* match_cancelled, and the handler has set the players of the match that
\* were starting to idle and left every other state alone
C25_FailureCleansUp ==
    [][(~LaunchOver /\ LaunchOver' /\ launch_error' # NoError) =>
          /\ ladder_game'.finished <=> ladder_game'.id # 0
          /\ Receivers(Cancels(launch_msgs')) = all_players(launch_in)
          /\ player_state' =
                [p \in Players |->
                    IF /\ p \in Range(all_players(launch_in))
                       /\ player_state[p] = STARTING_AUTOMATCH
                    THEN IDLE ELSE player_state[p]]]_vars

\* the outcome the failure of a launch is counted as
OutcomeOf(error) ==
    CASE error = NoError -> "SUCCESSFUL"
      [] error.kind = "NotConnectedError" -> "TIMED_OUT"
      [] error.kind = "GameClosedError" -> "ABORTED_BY_PLAYER"
      [] OTHER -> "ERRORED"

\* C26: a run of _start_game that is over has incremented exactly one
\* counter of matches{queue, ...}, the one of its outcome
C26_OneCounterPerRun ==
    LaunchOver =>
        metrics_matches = [o \in MatchLaunch |->
                              IF o = OutcomeOf(launch_error) THEN 1 ELSE 0]

\* C30: the assertion of the failure handler does not fail
C30_AssertionHolds == launch_error.kind # "AssertionError"

\* as the claim has it: the player in slot s has StartSpot = Army = Color = s
\* and Team 2 when s is even, 3 when s is odd
C29_Original ==
    player_options.done =>
        \A s \in 1..Len(SlotOrder(slot_in)) :
            LET o == player_options.options[SlotOrder(slot_in)[s]]
            IN  /\ o.StartSpot = s /\ o.Army = s /\ o.Color = s
                /\ o.Team = IF s % 2 = 0 THEN 2 ELSE 3

\* C29: the player in slot s (1-based) has StartSpot = Army = Color = s and
\* Team 2 when s is odd, 3 when s is even; a player of neither team has no
\* options
C29_SlotOptions ==
    player_options.done =>
        /\ \A s \in 1..Len(SlotOrder(slot_in)) :
              LET o == player_options.options[SlotOrder(slot_in)[s]]
              IN  /\ o.StartSpot = s /\ o.Army = s /\ o.Color = s
                  /\ o.Team = IF s % 2 = 1 THEN 2 ELSE 3
        /\ \A p \in Players \ (Range(slot_in.team1) \cup Range(slot_in.team2)) :
              player_options.options[p] = NoOptions

\* the slots of a 2v2 are assigned, the pairs swapped by the shuffle
C29_Witness ==
    /\ player_options.done
    /\ Len(slot_in.team1) = 2
    /\ slot_in.shuffle = <<2, 1>>
    /\ \E p \in Players : player_options.options[p].StartSpot = 4

\* C28: when the queue has no map pool for the match, the launch ends as
\* ERRORED with a RuntimeError: no game is created, no launch_game is
\* written, no violation is registered, every player of both teams is sent
\* match_cancelled without a game id, and the players that were starting are
\* idle
C28_NoMapPool ==
    (launch_pc = "get_game_history" /\ ~launch_in.pool) =>
        LET r == Try(start_game(LaunchView, launch_in, "returns"), launch_in)
        IN  /\ r.pc = "done"
            /\ r.error.kind = "RuntimeError"
            /\ r.metrics = [metrics_matches EXCEPT !["ERRORED"] = @ + 1]
            /\ r.game = NoGame
            /\ LaunchGames(r.msgs) = <<>>
            /\ r.violations = <<>>
            /\ Receivers(Cancels(r.msgs)) = all_players(launch_in)
            /\ \A i \in 1..Len(r.msgs) : r.msgs[i].game_id = 0
            /\ r.state = [p \in Players |->
                            IF /\ p \in Range(all_players(launch_in))
                               /\ player_state[p] = STARTING_AUTOMATCH
                            THEN IDLE ELSE player_state[p]]

\* a 2v2 launch has ended for want of a map pool, its four players told
C28_Witness ==
    /\ launch_pc = "done"
    /\ launch_error.at = "get_map_pool_for_rating"
    /\ metrics_matches["ERRORED"] = 1
    /\ Len(Cancels(launch_msgs)) = 4
    /\ \A p \in Players : player_state[p] = IDLE

\* team sorted ascending by rating mean: the same players, never a higher
\* mean before a lower one
IsAscending(sorted, team, mean) ==
    /\ Len(sorted) = Len(team)
    /\ Range(sorted) = Range(team)
    /\ \A i \in 1..Len(sorted) : \A j \in i..Len(sorted) :
          mean[sorted[i]] <= mean[sorted[j]]

\* C31: for two teams of N players and every permutation of the pairs, the
\* 2N players get the slots 1..2N, one each; the i-th lowest rated player
\* of team1 and the i-th lowest rated player of team2 get the adjacent
\* slots 2k-1 and 2k for some k; all of team1 has one Team value and all of
\* team2 the other
C31_SlotsPairOpponents ==
    player_options.done =>
        LET N == Len(slot_in.team1)
            o == player_options.options
            both == Range(slot_in.team1) \cup Range(slot_in.team2)
            t1 == SortedByMean(slot_in.team1, slot_in.mean, N)
            t2 == SortedByMean(slot_in.team2, slot_in.mean, N)
        IN  /\ IsAscending(t1, slot_in.team1, slot_in.mean)
            /\ IsAscending(t2, slot_in.team2, slot_in.mean)
            /\ {o[p].StartSpot : p \in both} = 1..(2 * N)
            /\ \A p \in both : \A q \in both :
                  o[p].StartSpot = o[q].StartSpot => p = q
            /\ \A i \in 1..N : \E k \in 1..N :
                  /\ o[t1[i]].StartSpot = 2 * k - 1
                  /\ o[t2[i]].StartSpot = 2 * k
            /\ \A i \in 1..N : o[slot_in.team1[i]].Team = 2
            /\ \A i \in 1..N : o[slot_in.team2[i]].Team = 3

\* a 2v2 whose teams came in descending order of mean has its slots, the
\* pairs swapped by the shuffle
C31_Witness ==
    /\ player_options.done
    /\ Len(slot_in.team1) = 2
    /\ slot_in.shuffle = <<2, 1>>
    /\ slot_in.mean[slot_in.team1[1]] > slot_in.mean[slot_in.team1[2]]
    /\ slot_in.mean[slot_in.team2[1]] > slot_in.mean[slot_in.team2[2]]
    /\ player_options.options[slot_in.team1[1]].StartSpot = 1

\* C32: add_game_connection adds the connection, keyed by its player, only
\* when the connection is CONNECTED_TO_HOST and the game is in LOBBY;
\* otherwise it raises GameError and leaves the connections and the state
\* of the game as they were
C32_AddGameConnection ==
    \A c \in Connections :
        LET connection == game_connections[c]
            r == add_game_connection(the_game, c, connection)
        IN  IF connection.state = "CONNECTED_TO_HOST" /\ the_game.state = "LOBBY"
            THEN /\ r.error = "None"
                 /\ r.connections = [the_game.connections EXCEPT ![connection.player] = c]
                 /\ r.state = the_game.state
            ELSE /\ r.error = "GameError"
                 /\ r.connections = the_game.connections
                 /\ r.state = the_game.state

\* a connection was added in the lobby, and after the launch a connection
\* that is connected to the host was refused
C32_Witness ==
    /\ the_game.state = "LIVE"
    /\ the_game.error = "GameError"
    /\ the_game.added # {}
    /\ \A c \in Connections : game_connections[c].state = "CONNECTED_TO_HOST"

\* C33: remove_game_connection ends the game (on_game_end run, state
\* ENDED) exactly when the removed connection was the last active one,
\* leaves the state of the game alone while others remain, and its
\* assertion holds for every connection that was added and not yet removed
C33_RemoveGameConnection ==
    \A c \in Connections :
        LET r == remove_game_connection(the_game, c, game_connections[c])
        IN  /\ c \in the_game.added => r.error # "AssertionError"
            /\ r.error = "None" =>
                  IF the_game.added = {c}
                  THEN r.state = "ENDED" /\ r.ends = the_game.ends + 1
                  ELSE r.state = the_game.state /\ r.ends = the_game.ends

\* C34: launch is allowed only in LOBBY and freezes the set of connected
\* players: once the game is launched, Game.players is the set of players
\* that were connected at launch, also after the last of them has dropped,
\* and when the game has ended a result is persisted for each of them
C34_LaunchFreezesPlayers ==
    /\ launch(the_game).error = "AssertionError" <=> the_game.state # "LOBBY"
    /\ the_game.launched =>
          /\ game_players(the_game) = the_game.at_launch
          /\ the_game.state = "ENDED" => the_game.persisted = the_game.at_launch

\* the highest of the scores
Highest(scores) ==
    CHOOSE s \in Range(scores) : \A t \in Range(scores) : t <= s

\* C35: get_army_result returns the highest score reported for the army
\* through add_result, whatever integer scores were reported, and raises
\* KeyError when no result was reported for the army
C35_HighestReportedScore ==
    \A army \in Armies :
        LET r == get_army_result(the_game, army)
        IN  IF the_game.results[army] = <<>>
            THEN r.raised
            ELSE ~r.raised /\ r.score = Highest(the_game.results[army])

\* C36: after every operation of the service, every Search found in the
\* registry is not cancelled and is registered under its queue name for
\* exactly its own players: if player p maps q to Search s, then p is a
\* player of s and every player of s maps q to s
C36_RegistryWellFormed ==
    \A p \in Players : \A q \in QueueNames :
        LET s == searches[p][q]
        IN  s # NoSearch =>
                /\ s \notin cancelled
                /\ search_obj[s].queue = q
                /\ p \in Members(s)
                /\ \A m \in Members(s) : searches[m][q] = s

\* a party of two is registered for the team queue after the Search of
\* another party, which shares a player with it, was cancelled
C36_Witness ==
    \E p \in Players : \E s \in cancelled :
        LET r == searches[p]["tmm2v2"]
        IN  /\ r # NoSearch
            /\ Len(search_obj[r].players) = 2
            /\ search_obj[s].queue = "tmm2v2"
            /\ Members(s) \cap Members(r) # {}
            /\ Members(s) # Members(r)

\* C37: after every operation of the service a player is in state
\* searching if and only if at least one Search is registered for the
\* player; the failure cleanup of a _start_game task that waits to run
\* keeps it so
C37_SearchingIffRegistered ==
    /\ \A p \in Players :
          player_state[p] = SEARCHING_LADDER <=> HasSearches(View, p)
    /\ \A i \in 1..Len(start_game_tasks) :
          LET r == cancel_match(LaunchView, start_game_tasks[i])
          IN  \A p \in Players :
                 r.state[p] = SEARCHING_LADDER <=> HasSearches(View, p)

\* a match was found for some players, who are starting it, while another
\* player still searches and another is idle
C37_Witness ==
    /\ start_game_tasks # <<>>
    /\ \E p \in Players : player_state[p] = STARTING_AUTOMATCH
    /\ \E p \in Players : player_state[p] = SEARCHING_LADDER /\ HasSearches(View, p)
    /\ \E p \in Players : player_state[p] = IDLE

StartMsg(player, queue_name) ==
    Msg(player, "search_info", queue_name, "start", "", NoProgress)

\* the operation that ended in r has sent a player a stop notice for a
\* queue, no start notice for it afterwards, and the player still has a
\* Search registered for the queue
StopKept(r) ==
    \E k \in 1..Len(r.msgs) :
        LET m == r.msgs[k]
        IN  /\ m.command = "search_info"
            /\ m.state = "stop"
            /\ r.searches[m.player][m.queue_name] # NoSearch
            /\ ~(\E j \in (k + 1)..Len(r.msgs) :
                    r.msgs[j] = StartMsg(m.player, m.queue_name))

\* C38 as stated: a player who is sent search_info stop for queue q by
\* cancel_search, start_search, on_match_found or on_connection_lost has no
\* Search registered for q when the operation ends, unless the operation
\* has sent the player a later search_info start for q
C38_Original ==
    /\ \A q \in QueueNames : \A players \in Parties(q) :
          \A timeouts \in SUBSET Range(players) :
              ~StopKept(start_search(View, players, q, timeouts, Len(search_obj) + 1))
    /\ \A p \in Players : \A q \in QueueNames \cup {"None"} :
          ~StopKept(cancel_search(View, p, q))
    /\ \A p \in Players : ~StopKept(on_connection_lost(View, p))
    /\ pop_pc = "find_matches1v1" => ~StopKept(Dispatch.sv)

\* C38: a player who is sent search_info stop for queue q by cancel_search,
\* on_match_found, on_connection_lost or a start_search that is not refused
\* has no Search registered for q when the operation ends, unless the
\* operation has sent the player a later search_info start for q; a
\* start_search refused for a timeout sends the stop notice and leaves the
\* registry as it was
C38_StopMeansUnregistered ==
    /\ \A q \in QueueNames : \A players \in Parties(q) :
          \A timeouts \in SUBSET Range(players) :
              LET r == start_search(View, players, q, timeouts, Len(search_obj) + 1)
              IN  IF timeouts = {}
                  THEN ~StopKept(r)
                  ELSE /\ r.searches = searches
                       /\ \A i \in 1..Len(players) : Sent(r.msgs, StopMsg(players[i], q))
    /\ \A p \in Players : \A q \in QueueNames \cup {"None"} :
          ~StopKept(cancel_search(View, p, q))
    /\ \A p \in Players : ~StopKept(on_connection_lost(View, p))
    /\ pop_pc = "find_matches1v1" => ~StopKept(Dispatch.sv)

\* the Search of a party of two was cancelled and neither of its players
\* has it any more, while a request was refused for a timeout and a player
\* keeps a Search
C38_Witness ==
    /\ last_refused
    /\ \E p \in Players : HasSearches(View, p)
    /\ \E s \in Alive \cap cancelled :
          /\ Len(search_obj[s].players) = 2
          /\ \A m \in Members(s) : searches[m][search_obj[s].queue] # s

\* C39: cancel_search for a player and a queue name with no registered
\* Search changes nothing: no message is sent, no player state changes and
\* the registry is as before; and cancel_search twice in a row leaves what
\* cancel_search once leaves
C39_CancelIdempotent ==
    \A p \in Players : \A q \in QueueNames \cup {"None"} :
        LET once == cancel_search(View, p, q)
            twice == cancel_search([once EXCEPT !.msgs = <<>>], p, q)
            none == IF q = "None" THEN ~HasSearches(View, p)
                    ELSE searches[p][q] = NoSearch
        IN  /\ none => once = View
            /\ twice = [once EXCEPT !.msgs = <<>>]

\* the Search of a party of two was cancelled, its players are idle with
\* nothing registered, so that another cancel_search of theirs finds no
\* Search, while another player still searches
C39_Witness ==
    /\ \E s \in Alive \cap cancelled :
          /\ Len(search_obj[s].players) = 2
          /\ \A m \in Members(s) : ~HasSearches(View, m) /\ player_state[m] = IDLE
    /\ \E p \in Players : HasSearches(View, p) /\ player_state[p] = SEARCHING_LADDER

\* C40: start_search for a queue name that is not among the queues of the
\* service fails without any effect: no Search is cancelled or registered,
\* no player state changes and no message is sent, also when a player of
\* the request has a Search registered under the name from before the
\* queue was removed
C40_UnknownQueueNoEffect ==
    \A q \in QueueNames : \A players \in Parties(q) :
        queues[q] = NoQueue =>
            LET r == start_search(View, players, q, {}, Len(search_obj) + 1)
            IN  /\ r.raised
                /\ r.searches = searches
                /\ r.cancelled = cancelled
                /\ r.state = player_state
                /\ r.msgs = <<>>

============================================================================
